---- MODULE Spec2Model ----
(***************************************************************************)
(* Model of the activation / entitlement backend of src/server.py.        *)
(*                                                                         *)
(* The store is the SQLite database (tables codes and devices).  Every    *)
(* request handler runs on a worker thread of the waitress pool with its  *)
(* own connection.  Python's sqlite3 module (default isolation level)     *)
(* runs a SELECT in autocommit mode and opens a transaction implicitly    *)
(* before the first UPDATE / INSERT / DELETE, which takes the database's  *)
(* single write lock until commit or rollback.  Handlers are therefore    *)
(* modelled statement by statement: a SELECT reads the committed tables,  *)
(* the first write of a handler acquires the lock and works on a private  *)
(* copy, commit publishes the copy.                                        *)
(*                                                                         *)
(* Time is an integer clock; a plan's duration is a number of ticks.      *)
(***************************************************************************)
EXTENDS Integers, Sequences, FiniteSets, TLC

\* ------------------------------------------------------------ bounds
\* Last instant of the clock.
MaxClock == 1

\* Requests the server accepts in one run.
MaxRequests == 3

\* Worker threads of the server (serve(..., threads=...)).
Threads == {"t1", "t2"}

\* Activation-code tokens the generator can draw and clients can present.
CodeTokens == {"K1", "K2"}

\* Device identifiers clients send.
DeviceIds == {"d1", "d2"}

\* ------------------------------------------------------------ values
\* Python None in a request body (a missing or null JSON field).
NONE == "<None>"

\* SQL NULL in a column.
NULL == "<NULL>"

\* No thread holds the write lock.
NoThread == "<nobody>"

\* str(x) of a request field: str(None) is the text "None".
Str(x) == IF x = NONE THEN "None" ELSE x

\* machine_id values a request body can carry: a device id or "".
MachineIdInputs == DeviceIds \cup {""}

\* code values a request body can carry.
CodeInputs == CodeTokens \cup {NONE}

\* ------------------------------------------------------------ configuration
\* CARD_DURATIONS: plan type -> duration, from config.json (in clock ticks).
\* The table of the deployment every run below starts from, unless the
\* scenario says otherwise; the running process reads it from durations.
CARD_DURATIONS == [monthly |-> 1, yearly |-> 2]

\* GENERATE_CODE_LIMIT of config.json.
GENERATE_CODE_LIMIT == 2

\* ADMIN_PASSWORD_HASH of config.json, as the fields between its '$' signs:
\* the salt and the PBKDF2 key derived from the admin's password, both
\* written in hexadecimal.  A salt is a text, a key the bytes derived from a
\* password and a salt.
Pbkdf2(password, salt) == <<password, salt>>

\* A salt field and a key field that are not hexadecimal, and the key field
\* that is empty (bytes.fromhex('') is b'').
NotHexSalt == "zz"

NotHexKey == <<"zz">>

EmptyKey == <<>>

ADMIN_PASSWORD_HASH == << "salt", Pbkdf2("secret", "salt") >>

\* ------------------------------------------------------------ content
\* Rows of the dictionary table, each with its parsed JSON entry: the
\* content every run below starts from, unless the scenario says otherwise.
DictionaryRows ==
    << [glyph |-> "A", pinyin |-> "Ma", char_type |-> <<"common">>,
        is_phonetic_radical |-> TRUE, phonetic_radical |-> NONE],
       [glyph |-> "B", pinyin |-> "ma", char_type |-> <<"common", "rare", "common">>,
        is_phonetic_radical |-> FALSE, phonetic_radical |-> "A"],
       [glyph |-> "C", pinyin |-> "", char_type |-> <<"rare">>,
        is_phonetic_radical |-> FALSE, phonetic_radical |-> NONE],
       [glyph |-> "D", pinyin |-> "", char_type |-> <<>>,
        is_phonetic_radical |-> TRUE, phonetic_radical |-> "A"],
       [glyph |-> "E", pinyin |-> "", char_type |-> <<>>,
        is_phonetic_radical |-> FALSE, phonetic_radical |-> "D"] >>

\* A dictionary row that has a pinyin and nothing else of interest.
PinyinRow(glyph, pinyin) ==
    [glyph |-> glyph, pinyin |-> pinyin, char_type |-> <<>>,
     is_phonetic_radical |-> FALSE, phonetic_radical |-> NONE]

\* A content of table dictionary is held by its name: DefaultContent names
\* DictionaryRows; any other name is the sequence of the pinyin texts of its
\* rows, whose glyphs are those of ContentGlyphs in order.
DefaultContent == << "*" >>

ContentGlyphs == << "A", "B" >>

\* DATABASE_FILE does not exist (os.path.exists, line 115, is false).
NoFile == << "no file" >>

\* DATABASE_FILE as sqlite3.connect creates it: it exists and has no table.
NoTables == << "no tables" >>

RowsOfContent(name) ==
    IF name = DefaultContent THEN DictionaryRows
    ELSE IF name \in {NoFile, NoTables} THEN <<>>
    ELSE [i \in 1..Len(name) |-> PinyinRow(ContentGlyphs[i], name[i])]

\* ------------------------------------------------------------ timestamps
\* A timestamp text: the instant and the UTC-offset suffix it is written with.
\* datetime.isoformat() of an aware UTC datetime ends in "+00:00".
IsoFormat(t) == [inst |-> t, tz |-> "+00:00"]

\* str.replace(old, new) on the suffix of a timestamp text.
Replace(s, old, new) == IF s.tz = old THEN [s EXCEPT !.tz = new] ELSE s

\* datetime.fromisoformat: parses a text ending in "+00:00".
ParseError == 0 - 1

FromIsoFormat(s) == IF s.tz = "+00:00" THEN s.inst ELSE ParseError

\* The text stored in activated_at / expires_at.
StoredTime(t) == Replace(IsoFormat(t), "+00:00", "Z")

\* The instant of a stored text, as check_status and the guard read it.
ParseStored(s) == FromIsoFormat(Replace(s, "Z", "+00:00"))

NoTime == [inst |-> 0, tz |-> ""]

\* The instant a timestamp text denotes (texts order as their instants do).
Inst(ts) == ts.inst

\* ------------------------------------------------------------ state
VARIABLES
    codes,      \* committed table codes: code -> [type, used_by]
    devices,    \* committed table devices: its set of rows
    lock,       \* the thread whose open transaction holds the write lock
    wcodes,     \* the lock holder's uncommitted view of codes
    wdevices,   \* the lock holder's uncommitted view of devices
    th,         \* per worker thread: the request it serves and its locals
    clock,      \* datetime.now(timezone.utc)
    logged_in,  \* session['logged_in'] of the admin's browser session
    served,     \* number of requests accepted so far
    durations,  \* CARD_DURATIONS as the process loaded it at start-up
    database,   \* DATABASE_FILE: NoFile, NoTables, or the content of its
                \* table dictionary by name
    admin_hash  \* ADMIN_PASSWORD_HASH as the process loaded it at start-up

vars == <<codes, devices, lock, wcodes, wdevices, th, clock, logged_in, served,
          durations, database, admin_hash>>

\* SELECT glyph, data FROM dictionary as build_indexes ran it (line 204): the
\* rows of the content the process started on.
dictionary == RowsOfContent(database)

\* ------------------------------------------------------------ tables
\* UPDATE codes SET used_by = v WHERE code = c (no row: nothing changes).
UpdateUsedBy(tbl, c, v) ==
    IF c \in DOMAIN tbl THEN [tbl EXCEPT ![c].used_by = v] ELSE tbl

\* A row of devices as activate inserts it.
MutDeviceRow_OneTick(machine_id, code, card_type, now, duration) ==
    [machine_id |-> machine_id, activation_code |-> code, card_type |-> card_type,
     activated_at |-> StoredTime(now),
     expires_at |-> StoredTime(now + 1)]

MutDeviceRow_ExpiresAtNow(machine_id, code, card_type, now, duration) ==
    [machine_id |-> machine_id, activation_code |-> code, card_type |-> card_type,
     activated_at |-> StoredTime(now),
     expires_at |-> StoredTime(now)]

DeviceRow(machine_id, code, card_type, now, duration) ==
    [machine_id |-> machine_id, activation_code |-> code, card_type |-> card_type,
     activated_at |-> StoredTime(now),
     expires_at |-> StoredTime(now + duration)]

\* SELECT ... FROM devices WHERE machine_id = ?: the rows found.
RowsOf(tbl, machine_id) == {row \in tbl : row.machine_id = machine_id}

\* fetchone() on a result that has a row.
FetchOne(rows) == CHOOSE row \in rows : TRUE

\* devices.machine_id is the PRIMARY KEY: an INSERT of a present key fails.
PrimaryKeyTaken(tbl, machine_id) == RowsOf(tbl, machine_id) # {}

\* INSERT INTO devices of a row whose machine_id is not in the table.
MutInsertDevice_Lost(tbl, row) == tbl

MutInsertDevice_Renew(tbl, row) ==
    {[r EXCEPT !.expires_at = row.expires_at] : r \in tbl} \cup {row}

InsertDevice(tbl, row) == tbl \cup {row}

\* DELETE FROM devices WHERE machine_id = ?.
MutDeleteRow_Keep(tbl, machine_id) == tbl

DeleteRow(tbl, machine_id) == tbl \ RowsOf(tbl, machine_id)

\* INSERT INTO codes of a code that is not in the table.
InsertCode(tbl, code, row) == tbl @@ (code :> row)

EmptyTable == [k \in {} |-> NULL]

\* ------------------------------------------------------------ migration
\* Contents of the legacy activation_codes.json the first start may find.
OldCodesFiles ==
    { <<>>,
      << [code |-> "K1", used_by |-> NULL] >>,
      << [code |-> "K1", type |-> "legacy", used_by |-> NULL] >> }

\* The codes part of convert_json_to_sqlite: a missing type becomes
\* 'monthly', rows are added with INSERT OR IGNORE.
RECURSIVE MigrateCodes(_, _)
MigrateCodes(file, tbl) ==
    IF file = <<>> THEN tbl
    ELSE LET r == Head(file)
             ty == IF "type" \in DOMAIN r THEN r.type ELSE "monthly"
             t2 == IF r.code \in DOMAIN tbl THEN tbl
                   ELSE InsertCode(tbl, r.code, [type |-> ty, used_by |-> r.used_by])
         IN MigrateCodes(Tail(file), t2)

\* ------------------------------------------------------------ threads
NoResp == [status |-> 0, kind |-> "", expires_at |-> NoTime, card_type |-> "",
           items |-> <<>>]

\* request.args of /api/management_data; NoArgs when the request is another.
NoArgs == [code_page |-> 0, code_per_page |-> 0, code_search |-> "",
           show_unused |-> FALSE, device_page |-> 0, device_per_page |-> 0,
           device_search |-> ""]

\* A worker thread: the request it serves (op, machine_id, code_str, query,
\* search_type, args), the handler's position (pc) and locals (card_type, now,
\* code_to_reset, quantity), whether the handler read the content index (consulted),
\* the sqlite3.Error it caught and wrote to the log (logged), and the response
\* it returned (resp).
Idle == [op |-> "idle", pc |-> "idle", machine_id |-> "", code_str |-> "",
         card_type |-> "", now |-> 0, code_to_reset |-> "", quantity |-> 0,
         query |-> "", search_type |-> "", args |-> NoArgs,
         consulted |-> FALSE, logged |-> "", resp |-> NoResp]

\* jsonify(...) with a status: the handler returns and its locals are gone.
Reply(r, status, kind) ==
    [r EXCEPT !.pc = "done", !.card_type = "", !.now = 0, !.code_to_reset = "",
              !.quantity = 0,
              !.resp = [NoResp EXCEPT !.status = status, !.kind = kind]]

ReplyWith(r, status, kind, expires_at, card_type) ==
    [Reply(r, status, kind) EXCEPT !.resp.expires_at = expires_at,
                                   !.resp.card_type = card_type]

\* str(e) of the sqlite3.Error a statement or a commit can raise: the busy
\* timeout, a primary-key collision, and faults of the disk.
Locked == "database is locked"

UniqueFailed == "UNIQUE constraint failed: devices.machine_id"

DiskErrors == {"disk I/O error", "database or disk is full"}

\* except sqlite3.Error as e (lines 354-356 and 487-489): the error is logged
\* and the caller gets a constant message with status 500.
MutStorageFailure_Leak(r, e) ==
    [Reply(r, 500, e) EXCEPT !.logged = e]

StorageFailure(r, e) ==
    [Reply(r, 500, "storage_error") EXCEPT !.logged = e]

\* The transaction of thread t ends: commit publishes, rollback discards.
Commit ==
    /\ codes' = wcodes
    /\ devices' = wdevices
    /\ lock' = NoThread
    /\ UNCHANGED <<wcodes, wdevices>>

MutRollback_KeepUpdate ==
    /\ codes' = wcodes
    /\ wdevices' = devices
    /\ lock' = NoThread
    /\ UNCHANGED <<devices, wcodes>>

MutRollback_Publish ==
    /\ codes' = wcodes
    /\ devices' = wdevices
    /\ lock' = NoThread
    /\ UNCHANGED <<wcodes, wdevices>>

Rollback ==
    /\ wcodes' = codes
    /\ wdevices' = devices
    /\ lock' = NoThread
    /\ UNCHANGED <<codes, devices>>

\* A step that runs no writing statement leaves the store as it is.
MutNoStore_PurgeLapsed ==
    /\ devices' = {row \in devices : Inst(row.expires_at) > clock}
    /\ wdevices' = {row \in wdevices : Inst(row.expires_at) > clock}
    /\ UNCHANGED <<codes, lock, wcodes>>

NoStore == UNCHANGED <<codes, devices, lock, wcodes, wdevices>>

\* A worker thread takes the next request from the server's queue.
Accept ==
    /\ served < MaxRequests
    /\ served' = served + 1

\* ------------------------------------------------------------ Init
Init ==
    /\ \E file \in OldCodesFiles : codes = MigrateCodes(file, EmptyTable)
    /\ devices = {}
    /\ lock = NoThread
    /\ wcodes = codes
    /\ wdevices = devices
    /\ th = [t \in Threads |-> Idle]
    /\ clock = 0
    /\ logged_in = FALSE
    /\ served = 0
    /\ admin_hash = ADMIN_PASSWORD_HASH
    /\ database = DefaultContent
    /\ durations = CARD_DURATIONS

\* Time passes.
Tick ==
    /\ clock < MaxClock
    /\ clock' = clock + 1
    /\ UNCHANGED <<codes, devices, lock, wcodes, wdevices, th, logged_in, served, durations, database, admin_hash>>

\* The response is sent; the worker thread is free again.
Respond(t) ==
    /\ th[t].pc = "done"
    /\ th' = [th EXCEPT ![t] = Idle]
    /\ NoStore
    /\ UNCHANGED <<clock, logged_in, served, durations, database, admin_hash>>

\* ------------------------------------------------------------ check_status
\* expires_at > datetime.now(timezone.utc)
MutStillValid_Inclusive(expires_at, now) == expires_at >= now

StillValid(expires_at, now) == expires_at > now

\* Lines 306-315 of check_status: the reply for the rows selected.
MutStatusOf_LapsedAsMissing(tbl, machine_id, now, r) ==
    IF RowsOf(tbl, machine_id) = {} THEN Reply(r, 200, "unactivated")
    ELSE LET device_info == FetchOne(RowsOf(tbl, machine_id))
             expires_at == ParseStored(device_info.expires_at)
         IN IF StillValid(expires_at, now)
            THEN ReplyWith(r, 200, "activated", device_info.expires_at,
                           device_info.card_type)
            ELSE Reply(r, 200, "unactivated")

StatusOf(tbl, machine_id, now, r) ==
    IF RowsOf(tbl, machine_id) = {} THEN Reply(r, 200, "unactivated")
    ELSE LET device_info == FetchOne(RowsOf(tbl, machine_id))
             expires_at == ParseStored(device_info.expires_at)
         IN IF StillValid(expires_at, now)
            THEN ReplyWith(r, 200, "activated", device_info.expires_at,
                           device_info.card_type)
            ELSE ReplyWith(r, 200, "expired", device_info.expires_at, "")

check_status(t, mid_in) ==
    /\ th[t].pc = "idle"
    /\ Accept
    /\ LET machine_id == Str(mid_in)
           r == [Idle EXCEPT !.op = "check_status", !.machine_id = machine_id]
       IN th' = [th EXCEPT ![t] =
                    IF machine_id = "" THEN Reply(r, 400, "invalid_request")
                    ELSE StatusOf(devices, machine_id, clock, r)]
    /\ NoStore
    /\ UNCHANGED <<clock, logged_in, durations, database, admin_hash>>

\* ------------------------------------------------------------ activate
\* not code_info or code_info['used_by']
MutCodeRejected_AbsentOnly(tbl, code_str) == code_str \notin DOMAIN tbl

CodeRejected(tbl, code_str) ==
    \/ code_str \notin DOMAIN tbl
    \/ tbl[code_str].used_by # NULL

\* SELECT 1 FROM devices WHERE machine_id = ? returned a row.
MutDeviceBound_Never(tbl, machine_id) == FALSE

DeviceBound(tbl, machine_id) == RowsOf(tbl, machine_id) # {}

\* CARD_DURATIONS.get(card_type): the durations found (none or one).
MutDurationGet_Default(card_type) ==
    IF card_type \in DOMAIN durations THEN {durations[card_type]}
    ELSE {durations["monthly"]}

DurationGet(card_type) ==
    IF card_type \in DOMAIN durations THEN {durations[card_type]} ELSE {}

\* not duration: None, or a timedelta of zero.
NotDuration(found) == found = {} \/ found = {0}

\* Lines 319-329: the request is read, the code row is selected and checked.
MutActivateBegin_AbsentNotFound(t, mid_in, code_in) ==
    /\ th[t].pc = "idle"
    /\ Accept
    /\ LET machine_id == Str(mid_in)
           r == [Idle EXCEPT !.op = "activate", !.machine_id = machine_id,
                             !.code_str = code_in]
       IN th' = [th EXCEPT ![t] =
            IF machine_id = "" \/ code_in = NONE \/ code_in = ""
            THEN Reply(r, 400, "invalid_request")
            ELSE IF code_in \notin DOMAIN codes
            THEN Reply(r, 404, "not_found")
            ELSE IF CodeRejected(codes, code_in)
            THEN Reply(r, 403, "invalid_code")
            ELSE [r EXCEPT !.pc = "sel_device",
                           !.card_type = codes[code_in].type]]
    /\ NoStore
    /\ UNCHANGED <<clock, logged_in, durations, database, admin_hash>>

activate_begin(t, mid_in, code_in) ==
    /\ th[t].pc = "idle"
    /\ Accept
    /\ LET machine_id == Str(mid_in)
           r == [Idle EXCEPT !.op = "activate", !.machine_id = machine_id,
                             !.code_str = code_in]
       IN th' = [th EXCEPT ![t] =
            IF machine_id = "" \/ code_in = NONE \/ code_in = ""
            THEN Reply(r, 400, "invalid_request")
            ELSE IF CodeRejected(codes, code_in)
            THEN Reply(r, 403, "invalid_code")
            ELSE [r EXCEPT !.pc = "sel_device",
                           !.card_type = codes[code_in].type]]
    /\ NoStore
    /\ UNCHANGED <<clock, logged_in, durations, database, admin_hash>>

\* Lines 331-343: the device row is selected, the duration looked up, now read.
MutActivateSelectDevice_LapsedUnbound(t) ==
    /\ th[t].pc = "sel_device"
    /\ LET r == th[t]
           live == {row \in RowsOf(devices, r.machine_id) :
                      ParseStored(row.expires_at) > clock}
       IN th' = [th EXCEPT ![t] =
            IF live # {}
            THEN Reply(r, 409, "already_bound")
            ELSE IF NotDuration(DurationGet(r.card_type))
            THEN Reply(r, 500, "unknown_plan")
            ELSE [r EXCEPT !.pc = "upd", !.now = clock]]
    /\ NoStore
    /\ UNCHANGED <<clock, logged_in, served, durations, database, admin_hash>>

MutActivateSelectDevice_PlanFirst(t) ==
    /\ th[t].pc = "sel_device"
    /\ LET r == th[t]
       IN th' = [th EXCEPT ![t] =
            IF NotDuration(DurationGet(r.card_type))
            THEN Reply(r, 500, "unknown_plan")
            ELSE IF DeviceBound(devices, r.machine_id)
            THEN Reply(r, 409, "already_bound")
            ELSE [r EXCEPT !.pc = "upd", !.now = clock]]
    /\ NoStore
    /\ UNCHANGED <<clock, logged_in, served, durations, database, admin_hash>>

activate_select_device(t) ==
    /\ th[t].pc = "sel_device"
    /\ LET r == th[t]
       IN th' = [th EXCEPT ![t] =
            IF DeviceBound(devices, r.machine_id)
            THEN Reply(r, 409, "already_bound")
            ELSE IF NotDuration(DurationGet(r.card_type))
            THEN Reply(r, 500, "unknown_plan")
            ELSE [r EXCEPT !.pc = "upd", !.now = clock]]
    /\ NoStore
    /\ UNCHANGED <<clock, logged_in, served, durations, database, admin_hash>>

\* Line 347: UPDATE codes SET used_by = ?; the implicit BEGIN takes the write
\* lock.  While another transaction holds it the statement waits, and after
\* the connection's timeout it raises "database is locked" (lines 354-356).
activate_update(t) ==
    /\ th[t].pc = "upd"
    /\ \/ /\ lock = NoThread
          /\ lock' = t
          /\ wcodes' = UpdateUsedBy(codes, th[t].code_str, th[t].machine_id)
          /\ wdevices' = devices
          /\ th' = [th EXCEPT ![t].pc = "ins"]
       \/ /\ lock \notin {NoThread, t}
          /\ th' = [th EXCEPT ![t] = StorageFailure(th[t], Locked)]
          /\ UNCHANGED <<lock, wcodes, wdevices>>
    /\ UNCHANGED <<codes, devices, clock, logged_in, served, durations, database, admin_hash>>

\* Lines 348-359: INSERT INTO devices, conn.commit() and the success response,
\* which carries expires_at.isoformat().  A row with the same machine_id makes
\* the INSERT raise IntegrityError: the with block rolls back (lines 354-356).
activate_insert(t) ==
    /\ th[t].pc = "ins"
    /\ lock = t
    /\ LET r == th[t]
           duration == CHOOSE d \in DurationGet(r.card_type) : TRUE
       IN IF PrimaryKeyTaken(wdevices, r.machine_id)
          THEN /\ Rollback
               /\ th' = [th EXCEPT ![t] = StorageFailure(r, UniqueFailed)]
          ELSE /\ codes' = wcodes
               /\ devices' = InsertDevice(wdevices,
                                 DeviceRow(r.machine_id, r.code_str, r.card_type,
                                           r.now, duration))
               /\ wcodes' = wcodes
               /\ wdevices' = devices'
               /\ lock' = NoThread
               /\ th' = [th EXCEPT ![t] =
                            ReplyWith(r, 200, "activated_ok",
                                      IsoFormat(r.now + duration), "")]
    /\ UNCHANGED <<clock, logged_in, served, durations, database, admin_hash>>

\* Lines 347-356 when the disk fails: the INSERT or conn.commit() raises, the
\* with block rolls the transaction back and the except clause answers.
MutActivateFault_Retry(t) ==
    /\ th[t].pc = "ins"
    /\ lock = t
    /\ Rollback
    /\ \E e \in DiskErrors : th' = [th EXCEPT ![t].pc = "upd", ![t].logged = e]
    /\ UNCHANGED <<clock, logged_in, served, durations, database, admin_hash>>

activate_fault(t) ==
    /\ th[t].pc = "ins"
    /\ lock = t
    /\ Rollback
    /\ \E e \in DiskErrors : th' = [th EXCEPT ![t] = StorageFailure(th[t], e)]
    /\ UNCHANGED <<clock, logged_in, served, durations, database, admin_hash>>

\* ------------------------------------------------------------ session check
\* session.get('logged_in') as the admin handlers test it.
MutAuthorized_Always(flag) == TRUE

Authorized(flag) == flag

\* ------------------------------------------------------------ revoke
\* Lines 467-478: session and request checks, the binding's code is selected.
revoke_begin(t, mid_in) ==
    /\ th[t].pc = "idle"
    /\ Accept
    /\ LET r == [Idle EXCEPT !.op = "revoke", !.machine_id = mid_in]
       IN th' = [th EXCEPT ![t] =
            IF ~Authorized(logged_in) THEN Reply(r, 401, "unauthorized")
            ELSE IF mid_in = NONE \/ mid_in = "" THEN Reply(r, 400, "invalid_request")
            ELSE IF RowsOf(devices, mid_in) = {} THEN Reply(r, 404, "not_found")
            ELSE [r EXCEPT !.pc = "rev_del",
                           !.code_to_reset =
                               FetchOne(RowsOf(devices, mid_in)).activation_code]]
    /\ NoStore
    /\ UNCHANGED <<clock, logged_in, durations, database, admin_hash>>

\* Line 482: DELETE FROM devices; takes the write lock or times out.
revoke_delete(t) ==
    /\ th[t].pc = "rev_del"
    /\ \/ /\ lock = NoThread
          /\ lock' = t
          /\ wdevices' = DeleteRow(devices, th[t].machine_id)
          /\ wcodes' = codes
          /\ th' = [th EXCEPT ![t].pc = "rev_upd"]
       \/ /\ lock \notin {NoThread, t}
          /\ th' = [th EXCEPT ![t] = StorageFailure(th[t], Locked)]
          /\ UNCHANGED <<lock, wcodes, wdevices>>
    /\ UNCHANGED <<codes, devices, clock, logged_in, served, durations, database, admin_hash>>

\* Lines 483-484: if code_to_reset: UPDATE codes SET used_by = NULL.
MutResetCode_Skip(tbl, code_to_reset) == tbl

ResetCode(tbl, code_to_reset) ==
    IF code_to_reset # "" THEN UpdateUsedBy(tbl, code_to_reset, NULL) ELSE tbl

\* Lines 483-485, 491-492: UPDATE codes SET used_by = NULL, commit, response.
revoke_commit(t) ==
    /\ th[t].pc = "rev_upd"
    /\ lock = t
    /\ codes' = ResetCode(wcodes, th[t].code_to_reset)
    /\ devices' = wdevices
    /\ wcodes' = codes'
    /\ wdevices' = wdevices
    /\ lock' = NoThread
    /\ th' = [th EXCEPT ![t] = Reply(th[t], 200, "revoked")]
    /\ UNCHANGED <<clock, logged_in, served, durations, database, admin_hash>>

\* Lines 482-489 when the disk fails: the UPDATE or conn.commit() raises, the
\* with block rolls the transaction back and the except clause answers.
revoke_fault(t) ==
    /\ th[t].pc = "rev_upd"
    /\ lock = t
    /\ Rollback
    /\ \E e \in DiskErrors : th' = [th EXCEPT ![t] = StorageFailure(th[t], e)]
    /\ UNCHANGED <<clock, logged_in, served, durations, database, admin_hash>>

\* ------------------------------------------------------------ admin session
\* Passwords a login form can carry.
Passwords == {"secret", "guess"}

\* bytes.fromhex of the two fields: a text that is not hexadecimal raises
\* ValueError.
HexFields(stored_hash) ==
    stored_hash[1] # NotHexSalt /\ stored_hash[2] # NotHexKey

\* A stored hash that does not split into exactly two fields, or a field
\* that is not hexadecimal, raises ValueError, which verify_password turns
\* into False; otherwise the stored key is compared with the derived one.
MutVerifyPassword_AcceptMalformed(stored_hash, provided_password) ==
    IF Len(stored_hash) # 2 THEN TRUE
    ELSE IF ~HexFields(stored_hash) THEN TRUE
    ELSE stored_hash[2] = Pbkdf2(provided_password, stored_hash[1])

verify_password(stored_hash, provided_password) ==
    IF Len(stored_hash) # 2 THEN FALSE
    ELSE IF ~HexFields(stored_hash) THEN FALSE
    ELSE stored_hash[2] = Pbkdf2(provided_password, stored_hash[1])

login(password) ==
    /\ verify_password(admin_hash, password)
    /\ ~logged_in
    /\ logged_in' = TRUE
    /\ NoStore
    /\ UNCHANGED <<th, clock, served, durations, database, admin_hash>>

logout ==
    /\ logged_in
    /\ logged_in' = FALSE
    /\ NoStore
    /\ UNCHANGED <<th, clock, served, durations, database, admin_hash>>

\* ------------------------------------------------------------ manage
\* GenerateCodesForm.validate_on_submit(): a POST whose quantity is within
\* 1..GENERATE_CODE_LIMIT and whose card_type is one of the choices.
MutFormValid_AnyType(method, quantity, card_type) ==
    /\ method = "POST"
    /\ quantity >= 1
    /\ quantity <= GENERATE_CODE_LIMIT

FormValid(method, quantity, card_type) ==
    /\ method = "POST"
    /\ quantity >= 1
    /\ quantity <= GENERATE_CODE_LIMIT
    /\ card_type \in DOMAIN durations

\* executemany("INSERT INTO codes ..."): the rows are inserted in order; the
\* result is the set of tables reached, empty when a primary key repeats.
RECURSIVE MutInsertCodes_KeepPartial(_, _, _)
MutInsertCodes_KeepPartial(tbl, new_codes, card_type) ==
    IF new_codes = <<>> THEN {tbl}
    ELSE IF Head(new_codes) \in DOMAIN tbl THEN {tbl}
    ELSE MutInsertCodes_KeepPartial(
             InsertCode(tbl, Head(new_codes), [type |-> card_type, used_by |-> NULL]),
             Tail(new_codes), card_type)

RECURSIVE InsertCodes(_, _, _)
InsertCodes(tbl, new_codes, card_type) ==
    IF new_codes = <<>> THEN {tbl}
    ELSE IF Head(new_codes) \in DOMAIN tbl THEN {}
    ELSE InsertCodes(InsertCode(tbl, Head(new_codes),
                               [type |-> card_type, used_by |-> NULL]),
                     Tail(new_codes), card_type)

\* Submissions of the generation form: the valid ones, a GET, a quantity
\* outside 1..GENERATE_CODE_LIMIT, a card type that is no choice.
FormInputs ==
    [method : {"POST"}, quantity : 1..GENERATE_CODE_LIMIT,
     card_type : DOMAIN CARD_DURATIONS]
    \cup { [method |-> "GET", quantity |-> 1, card_type |-> "monthly"],
           [method |-> "POST", quantity |-> 0, card_type |-> "monthly"],
           [method |-> "POST", quantity |-> GENERATE_CODE_LIMIT + 1,
            card_type |-> "monthly"],
           [method |-> "POST", quantity |-> 1, card_type |-> "bogus"] }

\* Lines 397-406: session check, form validation, token generation and the
\* inserts (which take the write lock, or time out waiting for it).
manage_begin(t, method, quantity, card_type) ==
    /\ th[t].pc = "idle"
    /\ Accept
    /\ LET r == [Idle EXCEPT !.op = "manage", !.card_type = card_type,
                             !.quantity = quantity]
       IN \/ /\ ~Authorized(logged_in)
             /\ th' = [th EXCEPT ![t] = Reply(r, 302, "login_redirect")]
             /\ NoStore
          \/ /\ Authorized(logged_in)
             /\ ~FormValid(method, quantity, card_type)
             /\ th' = [th EXCEPT ![t] = Reply(r, 200, "form")]
             /\ NoStore
          \/ /\ Authorized(logged_in)
             /\ FormValid(method, quantity, card_type)
             /\ lock = NoThread
             /\ \E new_codes \in [1..quantity -> CodeTokens] :
                  LET res == InsertCodes(codes, new_codes, card_type)
                  IN IF res = {}
                     THEN /\ th' = [th EXCEPT ![t] = Reply(r, 302, "generate_failed")]
                          /\ NoStore
                     ELSE /\ wcodes' = CHOOSE x \in res : TRUE
                          /\ wdevices' = devices
                          /\ lock' = t
                          /\ th' = [th EXCEPT ![t] = [r EXCEPT !.pc = "gen_commit"]]
                          /\ UNCHANGED <<codes, devices>>
          \/ /\ Authorized(logged_in)
             /\ FormValid(method, quantity, card_type)
             /\ lock \notin {NoThread, t}
             /\ th' = [th EXCEPT ![t] = Reply(r, 302, "generate_failed")]
             /\ NoStore
    /\ UNCHANGED <<clock, logged_in, durations, database, admin_hash>>

\* Lines 407-414: conn.commit(), the success flash and the redirect.
manage_commit(t) ==
    /\ th[t].pc = "gen_commit"
    /\ lock = t
    /\ Commit
    /\ th' = [th EXCEPT ![t] = Reply(th[t], 302, "generated")]
    /\ UNCHANGED <<clock, logged_in, served, durations, database, admin_hash>>

\* ------------------------------------------------------------ management_data
\* The tokens in ascending text order (ORDER BY code compares texts).
CodeOrder == <<"K1", "K2">>

\* text LIKE '%search%' on the texts of the model, none of which is part of
\* another; NULL LIKE ... is not true.
Like(text, search) == text # NULL /\ text = search

\* The WHERE clause of the code listing (lines 435-441).
MutCodeMatches_IgnoreUnused(tbl, c, args) ==
    args.code_search # "" =>
        Like(c, args.code_search) \/ Like(tbl[c].used_by, args.code_search)

CodeMatches(tbl, c, args) ==
    /\ args.code_search # "" =>
          Like(c, args.code_search) \/ Like(tbl[c].used_by, args.code_search)
    /\ args.show_unused => tbl[c].used_by = NULL

\* The WHERE clause of the device listing (lines 451-453).
DeviceMatches(row, args) ==
    args.device_search # "" => Like(row.machine_id, args.device_search)

\* ORDER BY code DESC over the codes of S.
RECURSIVE CodesDesc(_, _)
CodesDesc(S, i) ==
    IF i = 0 THEN <<>>
    ELSE (IF CodeOrder[i] \in S THEN <<CodeOrder[i]>> ELSE <<>>) \o CodesDesc(S, i - 1)

\* ORDER BY activated_at DESC over the rows of S: every order of the rows in
\* which activated_at does not increase (the order of equal keys is open).
DevicesDesc(S) ==
    { seq \in [1..Cardinality(S) -> S] :
        /\ \A i \in DOMAIN seq, j \in DOMAIN seq : i # j => seq[i] # seq[j]
        /\ \A i \in DOMAIN seq, j \in DOMAIN seq :
              i < j => Inst(seq[i].activated_at) >= Inst(seq[j].activated_at) }

\* LIMIT per_page OFFSET (page - 1) * per_page; SQLite reads a negative
\* LIMIT as no limit and a negative OFFSET as 0.
Page(seq, page, per_page) ==
    LET off == (page - 1) * per_page
        offset == IF off < 0 THEN 0 ELSE off
        last == IF per_page < 0 \/ offset + per_page > Len(seq)
                THEN Len(seq) ELSE offset + per_page
    IN SubSeq(seq, offset + 1, last)

\* Query strings the listing receives.
ManagementQueries ==
    { [code_page |-> 1, code_per_page |-> 1, code_search |-> "",
       show_unused |-> TRUE, device_page |-> 1, device_per_page |-> 1,
       device_search |-> ""] }

\* Lines 419-443: session check, arguments, SELECT COUNT(*) FROM codes.
management_data_begin(t, args) ==
    /\ th[t].pc = "idle"
    /\ Accept
    /\ LET r == [Idle EXCEPT !.op = "management_data", !.args = args]
           total_codes == Cardinality({c \in DOMAIN codes : CodeMatches(codes, c, args)})
       IN th' = [th EXCEPT ![t] =
            IF ~Authorized(logged_in) THEN Reply(r, 401, "unauthorized")
            ELSE [r EXCEPT !.pc = "ls_codes", !.resp.items = <<total_codes>>]]
    /\ NoStore
    /\ UNCHANGED <<clock, logged_in, durations, database, admin_hash>>

\* Lines 444-446: SELECT * FROM codes ... ORDER BY code DESC LIMIT ? OFFSET ?.
management_data_codes(t) ==
    /\ th[t].pc = "ls_codes"
    /\ LET args == th[t].args
           found == {c \in DOMAIN codes : CodeMatches(codes, c, args)}
           page == Page(CodesDesc(found, Len(CodeOrder)), args.code_page,
                        args.code_per_page)
           codes_items == [i \in DOMAIN page |->
                             [code |-> page[i], type |-> codes[page[i]].type,
                              used_by |-> codes[page[i]].used_by]]
       IN th' = [th EXCEPT ![t].pc = "ls_dev_count",
                           ![t].resp.items = Append(@, codes_items)]
    /\ NoStore
    /\ UNCHANGED <<clock, logged_in, served, durations, database, admin_hash>>

\* Line 455: SELECT COUNT(*) FROM devices.
management_data_count(t) ==
    /\ th[t].pc = "ls_dev_count"
    /\ LET total_devices ==
               Cardinality({row \in devices : DeviceMatches(row, th[t].args)})
       IN th' = [th EXCEPT ![t].pc = "ls_dev",
                           ![t].resp.items = Append(@, total_devices)]
    /\ NoStore
    /\ UNCHANGED <<clock, logged_in, served, durations, database, admin_hash>>

\* Lines 456-463: SELECT * FROM devices ... ORDER BY activated_at DESC LIMIT ?
\* OFFSET ?, and the response.
management_data_devices(t) ==
    /\ th[t].pc = "ls_dev"
    /\ LET args == th[t].args
           found == {row \in devices : DeviceMatches(row, args)}
       IN \E sorted \in DevicesDesc(found) :
            th' = [th EXCEPT ![t].pc = "done",
                             ![t].resp.status = 200,
                             ![t].resp.kind = "listing",
                             ![t].resp.items =
                                Append(@, Page(sorted, args.device_page,
                                               args.device_per_page))]
    /\ NoStore
    /\ UNCHANGED <<clock, logged_in, served, durations, database, admin_hash>>

\* ------------------------------------------------------------ content index
\* str.lower() on the texts of the model.
Lower(s) == IF s = "Ma" \/ s = "MA" THEN "ma" ELSE s

\* The glyphs of DictionaryRows (used as query texts).
Glyphs == {DictionaryRows[i].glyph : i \in 1..Len(DictionaryRows)}

\* build_indexes: dictionary_data maps a glyph to the entry of its (last) row.
dictionary_data ==
    [g \in {dictionary[i].glyph : i \in 1..Len(dictionary)} |->
        LET last == CHOOSE i \in 1..Len(dictionary) :
                       /\ dictionary[i].glyph = g
                       /\ \A j \in 1..Len(dictionary) :
                             dictionary[j].glyph = g => j <= i
        IN dictionary[last]]

\* How often a value occurs in a sequence.
Count(seq, x) == Cardinality({i \in 1..Len(seq) : seq[i] = x})

\* pinyin_index[key]: the entries whose lower-cased pinyin is key.
MutPinyinIndex_CaseSensitive(key) ==
    LET Hit(e) == e.pinyin # "" /\ e.pinyin = key
    IN SelectSeq(dictionary, Hit)

pinyin_index(key) ==
    LET Hit(e) == e.pinyin # "" /\ Lower(e.pinyin) = key
    IN SelectSeq(dictionary, Hit)

\* char_type_index[key]: an entry once per occurrence of key in its char_type.
RECURSIVE char_type_index_of(_, _)
char_type_index_of(rows, key) ==
    IF rows = <<>> THEN <<>>
    ELSE [i \in 1..Count(Head(rows).char_type, key) |-> Head(rows)]
         \o char_type_index_of(Tail(rows), key)

char_type_index(key) == char_type_index_of(dictionary, key)

\* dictionary_data.values(): the entries in insertion order of their glyphs.
RECURSIVE DictValues(_, _)
DictValues(rows, seen) ==
    IF rows = <<>> THEN <<>>
    ELSE IF Head(rows).glyph \in seen THEN DictValues(Tail(rows), seen)
    ELSE <<dictionary_data[Head(rows).glyph]>>
         \o DictValues(Tail(rows), seen \cup {Head(rows).glyph})

\* list({item['glyph']: item for item in results}.values())
RECURSIVE MutUnique_KeepAll(_, _)
MutUnique_KeepAll(results, seen) ==
    IF results = <<>> THEN <<>>
    ELSE <<Head(results).glyph>> \o MutUnique_KeepAll(Tail(results), seen)

RECURSIVE Unique(_, _)
Unique(results, seen) ==
    IF results = <<>> THEN <<>>
    ELSE IF Head(results).glyph \in seen THEN Unique(Tail(results), seen)
    ELSE <<Head(results).glyph>> \o Unique(Tail(results), seen \cup {Head(results).glyph})

\* The body of get_identities (lines 364-370).
get_identities(r) ==
    IF r.query \notin DOMAIN dictionary_data
    THEN [Reply(r, 404, "not_found") EXCEPT !.consulted = TRUE]
    ELSE LET entry == dictionary_data[r.query]
             group == entry.is_phonetic_radical \/ entry.phonetic_radical # NONE
             reply == Reply(r, 200, "identities")
         IN [reply EXCEPT !.consulted = TRUE,
                          !.resp.items = IF group
                                         THEN <<"definition", "phonetic_group">>
                                         ELSE <<"definition">>]

\* Lines 384-386: the radical whose group a phonetic_group query lists.
MutRadical_BackReferenceFirst(query) ==
    IF query \notin DOMAIN dictionary_data THEN NONE
    ELSE IF dictionary_data[query].phonetic_radical # NONE
    THEN dictionary_data[query].phonetic_radical
    ELSE IF dictionary_data[query].is_phonetic_radical THEN query
    ELSE NONE

Radical(query) ==
    IF query \notin DOMAIN dictionary_data THEN NONE
    ELSE IF dictionary_data[query].is_phonetic_radical THEN query
    ELSE dictionary_data[query].phonetic_radical

\* The body of advanced_search (lines 375-392).
advanced_search(r) ==
    LET query == r.query
        known == query \in DOMAIN dictionary_data
        radical == Radical(query)
        InGroup(e) == e.phonetic_radical = radical \/ e.glyph = radical
        results ==
            IF r.search_type = "definition"
            THEN (IF known THEN <<dictionary_data[query]>> ELSE <<>>)
            ELSE IF r.search_type = "pinyin" THEN pinyin_index(Lower(query))
            ELSE IF r.search_type = "char_type" THEN char_type_index(query)
            ELSE IF r.search_type = "phonetic_group"
            THEN (IF radical # NONE THEN SelectSeq(DictValues(dictionary, {}), InGroup)
                  ELSE IF known THEN <<dictionary_data[query]>>
                  ELSE <<>>)
            ELSE <<>>
        reply == Reply(r, 200, "results")
    IN [reply EXCEPT !.consulted = TRUE, !.resp.items = Unique(results, {})]

\* Requests the content endpoints receive.
ContentRequests ==
    { [endpoint |-> "get_identities", query |-> "A", search_type |-> ""],
      [endpoint |-> "advanced_search", query |-> "MA", search_type |-> "pinyin"] }

\* ------------------------------------------------------------ guard
\* expires_at <= datetime.now(timezone.utc)
MutGuardExpired_Strict(expires_at, now) == expires_at < now

GuardExpired(expires_at, now) == expires_at <= now

\* Lines 184-192 of require_activated_device: what the guard decides.
MutGuardVerdict_NoExpiry(tbl, machine_id, now) ==
    IF RowsOf(tbl, machine_id) = {} THEN "unauthorized" ELSE "ok"

MutGuardVerdict_MissingAsExpired(tbl, machine_id, now) ==
    IF RowsOf(tbl, machine_id) = {} THEN "expired"
    ELSE IF GuardExpired(ParseStored(FetchOne(RowsOf(tbl, machine_id)).expires_at), now)
    THEN "expired"
    ELSE "ok"

GuardVerdict(tbl, machine_id, now) ==
    IF RowsOf(tbl, machine_id) = {} THEN "unauthorized"
    ELSE IF GuardExpired(ParseStored(FetchOne(RowsOf(tbl, machine_id)).expires_at), now)
    THEN "expired"
    ELSE "ok"

\* require_activated_device (lines 178-196): the decorated handler's body runs
\* only when the guard falls through.
guard(t, req, mid_in) ==
    /\ th[t].pc = "idle"
    /\ Accept
    /\ LET machine_id == Str(mid_in)
           r == [Idle EXCEPT !.op = req.endpoint, !.machine_id = machine_id,
                             !.query = req.query, !.search_type = req.search_type]
           verdict == GuardVerdict(devices, machine_id, clock)
       IN th' = [th EXCEPT ![t] =
            IF machine_id = "" THEN Reply(r, 400, "invalid_request")
            ELSE IF verdict = "ok" THEN [r EXCEPT !.pc = "body"]
            ELSE Reply(r, 403, verdict)]
    /\ NoStore
    /\ UNCHANGED <<clock, logged_in, durations, database, admin_hash>>

\* f(*args, **kwargs): the endpoint's body reads the in-memory index.
content_body(t) ==
    /\ th[t].pc = "body"
    /\ th' = [th EXCEPT ![t] = IF th[t].op = "get_identities"
                               THEN get_identities(th[t])
                               ELSE advanced_search(th[t])]
    /\ NoStore
    /\ UNCHANGED <<clock, logged_in, served, durations, database, admin_hash>>

\* ------------------------------------------------------------ specification
Next ==
    \/ Tick
    \/ \E password \in Passwords : login(password)
    \/ logout
    \/ \E t \in Threads :
        \/ Respond(t)
        \/ \E mid_in \in MachineIdInputs : check_status(t, mid_in)
        \/ \E mid_in \in MachineIdInputs, code_in \in CodeInputs :
              activate_begin(t, mid_in, code_in)
        \/ activate_select_device(t)
        \/ activate_update(t)
        \/ activate_insert(t)
        \/ \E mid_in \in MachineIdInputs : revoke_begin(t, mid_in)
        \/ revoke_delete(t)
        \/ revoke_commit(t)
        \/ \E form \in FormInputs :
              manage_begin(t, form.method, form.quantity, form.card_type)
        \/ manage_commit(t)
        \/ \E req \in ContentRequests, mid_in \in MachineIdInputs : guard(t, req, mid_in)
        \/ content_body(t)
        \/ \E args \in ManagementQueries : management_data_begin(t, args)
        \/ management_data_codes(t)
        \/ management_data_count(t)
        \/ management_data_devices(t)

Spec == Init /\ [][Next]_vars

\* ------------------------------------------------------------ race scenario
\* N concurrent activations of one unused code by distinct unbound devices:
\* every thread serves one activate of RaceCode, each for a device of its own,
\* and nothing else runs.
RaceCode == "K1"

InitRace ==
    /\ Init
    /\ RaceCode \in DOMAIN codes
    /\ codes[RaceCode].type \in DOMAIN CARD_DURATIONS

NextRace ==
    \/ Tick
    \/ \E t \in Threads :
        \/ \E d \in DeviceIds :
              /\ \A u \in Threads \ {t} : th[u].machine_id # d
              /\ activate_begin(t, d, RaceCode)
        \/ activate_select_device(t)
        \/ activate_update(t)
        \/ activate_insert(t)

SpecRace == InitRace /\ [][NextRace]_vars

\* ------------------------------------------------------------ round trip
\* One request after the other: a device redeems a code, the admin logs in and
\* revokes that device, and then a device (the same or another one) presents
\* the same code.  The thread of the first activate keeps its response; the
\* thread that served the revoke serves the second activate.
NextRoundTrip ==
    \/ Tick
    \/ \E password \in Passwords : login(password)
    \/ \E t \in Threads :
        \/ /\ served = 0
           /\ \E d \in DeviceIds, c \in CodeTokens : activate_begin(t, d, c)
        \/ activate_select_device(t)
        \/ activate_update(t)
        \/ activate_insert(t)
        \/ /\ served = 1
           /\ \E u \in Threads \ {t} :
                /\ th[u].op = "activate"
                /\ th[u].pc = "done"
                /\ th[u].resp.status = 200
                /\ revoke_begin(t, th[u].machine_id)
        \/ revoke_delete(t)
        \/ revoke_commit(t)
        \/ /\ th[t].op = "revoke"
           /\ th[t].resp.status = 200
           /\ Respond(t)
        \/ /\ served = 2
           /\ \E u \in Threads \ {t}, d \in DeviceIds :
                /\ th[u].op = "activate"
                /\ th[u].pc = "done"
                /\ th[u].resp.status = 200
                /\ activate_begin(t, d, th[u].code_str)

SpecRoundTrip == Init /\ [][NextRoundTrip]_vars

\* ------------------------------------------------------------ repeated checks
\* Status checks with no mutation of the store in between: activations run
\* (and are answered) first; once a thread holds the response of a
\* check_status no activate starts, and a check_status starts only while no
\* other handler is in flight.  The clock advances freely.
NextRepeat ==
    \/ Tick
    \/ \E t \in Threads :
        \/ /\ \A u \in Threads : th[u].op # "check_status"
           /\ \E d \in DeviceIds, c \in CodeTokens : activate_begin(t, d, c)
        \/ activate_select_device(t)
        \/ activate_update(t)
        \/ activate_insert(t)
        \/ /\ th[t].op = "activate"
           /\ Respond(t)
        \/ /\ \A u \in Threads \ {t} : th[u].pc \in {"idle", "done"}
           /\ \E d \in DeviceIds : check_status(t, d)

SpecRepeat == Init /\ [][NextRepeat]_vars

\* ------------------------------------------------------------ no revoke
\* The client-facing requests alone: devices activate, check their status and
\* read content, concurrently; the admin does nothing, so no binding is
\* revoked.
NextClients ==
    \/ Tick
    \/ \E t \in Threads :
        \/ Respond(t)
        \/ \E d \in DeviceIds : check_status(t, d)
        \/ \E d \in DeviceIds, c \in CodeTokens : activate_begin(t, d, c)
        \/ activate_select_device(t)
        \/ activate_update(t)
        \/ activate_insert(t)
        \/ \E req \in ContentRequests, d \in DeviceIds : guard(t, req, d)
        \/ content_body(t)

SpecClients == Init /\ [][NextClients]_vars

\* ------------------------------------------------------------ group queries
\* phonetic_group queries for every glyph of the dictionary and for a text
\* that is no glyph.
GroupRequests ==
    { [endpoint |-> "advanced_search", query |-> g, search_type |-> "phonetic_group"] :
        g \in Glyphs \cup {"Z"} }

\* Devices activate and send group queries.
NextGroups ==
    \/ Tick
    \/ \E t \in Threads :
        \/ Respond(t)
        \/ \E d \in DeviceIds, c \in CodeTokens : activate_begin(t, d, c)
        \/ activate_select_device(t)
        \/ activate_update(t)
        \/ activate_insert(t)
        \/ \E req \in GroupRequests, d \in DeviceIds : guard(t, req, d)
        \/ content_body(t)

SpecGroups == Init /\ [][NextGroups]_vars

\* ------------------------------------------------------------ searches
\* advanced_search requests of every mode (and of a mode that is none), for
\* every glyph, pinyin and class tag of the dictionary and for a text that
\* is none of them.
SearchRequests ==
    { [endpoint |-> "advanced_search", query |-> q, search_type |-> m] :
        q \in Glyphs \cup {"Z", "MA", "ma", "common", "rare"},
        m \in {"definition", "pinyin", "char_type", "phonetic_group", "other"} }

\* Devices activate and search, one search at a time (the index is read-only
\* after start-up, so searches do not affect each other).
NextSearch ==
    \/ Tick
    \/ \E t \in Threads :
        \/ Respond(t)
        \/ \E d \in DeviceIds, c \in CodeTokens : activate_begin(t, d, c)
        \/ activate_select_device(t)
        \/ activate_update(t)
        \/ activate_insert(t)
        \/ /\ \A u \in Threads \ {t} : th[u].op # "advanced_search"
           /\ \E req \in SearchRequests, d \in DeviceIds : guard(t, req, d)
        \/ content_body(t)

SpecSearch == Init /\ [][NextSearch]_vars

\* ------------------------------------------------------------ failing store
\* Activations and revocations on a store whose disk can fail while a
\* transaction is open.
NextFaults ==
    \/ Tick
    \/ \E password \in Passwords : login(password)
    \/ \E t \in Threads :
        \/ Respond(t)
        \/ \E d \in DeviceIds, c \in CodeTokens : activate_begin(t, d, c)
        \/ activate_select_device(t)
        \/ activate_update(t)
        \/ activate_insert(t)
        \/ activate_fault(t)
        \/ \E d \in DeviceIds : revoke_begin(t, d)
        \/ revoke_delete(t)
        \/ revoke_commit(t)
        \/ revoke_fault(t)

SpecFaults == Init /\ [][NextFaults]_vars

\* The statements a worker thread runs after it has read its request.  The
\* operating system schedules every worker thread, and a statement that waits
\* for the write lock returns after at most the connection's timeout
\* (timeout=10, line 80), so a handler that can take a step eventually does.
Handler(t) ==
    \/ activate_select_device(t)
    \/ activate_update(t)
    \/ activate_insert(t)
    \/ activate_fault(t)
    \/ revoke_delete(t)
    \/ revoke_commit(t)
    \/ revoke_fault(t)

SpecFair ==
    Init /\ [][NextFaults]_vars /\ \A t \in Threads : WF_vars(Handler(t))

\* ------------------------------------------------------------ listing pages
\* A store that does not change while the admin pages through the listings:
\* some devices are bound, each by a code of its own, at instants that may
\* coincide; the admin is logged in.
InitPages ==
    /\ \E bound \in SUBSET DeviceIds, code_of \in [DeviceIds -> CodeTokens],
          at \in [DeviceIds -> 0..MaxClock] :
          /\ \A d \in DeviceIds, e \in DeviceIds : d # e => code_of[d] # code_of[e]
          /\ codes = [c \in CodeTokens |->
                        [type |-> "monthly",
                         used_by |-> IF \E d \in bound : code_of[d] = c
                                     THEN CHOOSE d \in bound : code_of[d] = c
                                     ELSE NULL]]
          /\ devices = {DeviceRow(d, code_of[d], "monthly", at[d],
                                   CARD_DURATIONS["monthly"]) : d \in bound}
    /\ lock = NoThread
    /\ wcodes = codes
    /\ wdevices = devices
    /\ th = [t \in Threads |-> Idle]
    /\ clock = MaxClock
    /\ logged_in = TRUE
    /\ served = 0
    /\ admin_hash = ADMIN_PASSWORD_HASH
    /\ database = DefaultContent
    /\ durations = CARD_DURATIONS

\* Query strings of the admin page: a page and a page size (used for both
\* listings), the unused filter, and at most one search term.
PageQueries ==
    { [code_page |-> p, code_per_page |-> n, code_search |-> search[1],
       show_unused |-> su, device_page |-> p, device_per_page |-> n,
       device_search |-> search[2]] :
        p \in 1..2, n \in 1..2, su \in BOOLEAN,
        search \in {<<"", "">>, <<"K1", "">>, <<"d1", "d1">>} }

\* One listing request after the other; a thread keeps its response until it
\* is needed for the next request.
NextPages ==
    \E t \in Threads :
        \/ /\ \A u \in Threads \ {t} : th[u].pc \in {"idle", "done"}
           /\ \E args \in PageQueries : management_data_begin(t, args)
        \/ management_data_codes(t)
        \/ management_data_count(t)
        \/ management_data_devices(t)
        \/ Respond(t)

SpecPages == InitPages /\ [][NextPages]_vars

\* ------------------------------------------------------------ redeem listed
\* A store with a code of any plan type (a migrated file can carry a type that
\* is not configured) and a second code that may be redeemed already; the
\* admin is logged in.
InitRedeem ==
    /\ \E ty \in DOMAIN CARD_DURATIONS \cup {"legacy"}, redeemed \in BOOLEAN :
          /\ codes = ("K1" :> [type |-> ty, used_by |-> NULL])
                      @@ ("K2" :> [type |-> "monthly",
                                   used_by |-> IF redeemed THEN "d2" ELSE NULL])
          /\ devices = IF redeemed
                        THEN {DeviceRow("d2", "K2", "monthly", 0, CARD_DURATIONS["monthly"])}
                        ELSE {}
    /\ lock = NoThread
    /\ wcodes = codes
    /\ wdevices = devices
    /\ th = [t \in Threads |-> Idle]
    /\ clock = 0
    /\ logged_in = TRUE
    /\ served = 0
    /\ admin_hash = ADMIN_PASSWORD_HASH
    /\ database = DefaultContent
    /\ durations = CARD_DURATIONS

\* The admin lists the unused codes (as stress_test.py's prerequisite_tasks
\* does); afterwards one device without a binding presents a listed code, and
\* no other activation runs.
NextRedeem ==
    \/ Tick
    \/ \E t \in Threads :
        \/ /\ \A u \in Threads : th[u].op = "idle"
           /\ \E args \in {q \in PageQueries : q.show_unused} :
                management_data_begin(t, args)
        \/ management_data_codes(t)
        \/ management_data_count(t)
        \/ management_data_devices(t)
        \/ /\ \A u \in Threads : th[u].op # "activate"
           /\ \E u \in Threads \ {t}, d \in DeviceIds, i \in 1..2 :
                /\ th[u].op = "management_data"
                /\ th[u].pc = "done"
                /\ i \in DOMAIN th[u].resp.items[2]
                /\ RowsOf(devices, d) = {}
                /\ activate_begin(t, d, th[u].resp.items[2][i].code)
        \/ activate_select_device(t)
        \/ activate_update(t)
        \/ activate_insert(t)

SpecRedeem == InitRedeem /\ [][NextRedeem]_vars

\* ------------------------------------------------------------ one device, two codes
\* One device without a binding sends two concurrent activations, each with
\* an unused code of a configured plan; when both have returned, the request
\* that failed is answered and another device presents a code.
RaceDevice == "d1"

OtherDevice == "d2"

InitTwoCodes ==
    /\ \E ty \in [CodeTokens -> DOMAIN CARD_DURATIONS] :
          codes = [c \in CodeTokens |-> [type |-> ty[c], used_by |-> NULL]]
    /\ devices = {}
    /\ lock = NoThread
    /\ wcodes = codes
    /\ wdevices = devices
    /\ th = [t \in Threads |-> Idle]
    /\ clock = 0
    /\ logged_in = FALSE
    /\ served = 0
    /\ admin_hash = ADMIN_PASSWORD_HASH
    /\ database = DefaultContent
    /\ durations = CARD_DURATIONS

NextTwoCodes ==
    \/ Tick
    \/ \E t \in Threads :
        \/ /\ served < 2
           /\ \E c \in CodeTokens :
                /\ \A u \in Threads \ {t} : th[u].code_str # c
                /\ activate_begin(t, RaceDevice, c)
        \/ activate_select_device(t)
        \/ activate_update(t)
        \/ activate_insert(t)
        \/ /\ served = 2
           /\ \A u \in Threads : th[u].pc = "done"
           /\ th[t].resp.status # 200
           /\ Respond(t)
        \/ /\ served = 2
           /\ \E c \in CodeTokens : activate_begin(t, OtherDevice, c)

SpecTwoCodes == InitTwoCodes /\ [][NextTwoCodes]_vars

\* ------------------------------------------------------------ two revokes
\* The admin's session sends two concurrent revocations of one bound device
\* (the second starts while the first is in flight); a thread that has
\* answered its revocation then serves one activation.
InitRevokes ==
    /\ codes = ("K1" :> [type |-> "monthly", used_by |-> RaceDevice])
                @@ ("K2" :> [type |-> "monthly", used_by |-> NULL])
    /\ devices = {DeviceRow(RaceDevice, "K1", "monthly", 0, CARD_DURATIONS["monthly"])}
    /\ lock = NoThread
    /\ wcodes = codes
    /\ wdevices = devices
    /\ th = [t \in Threads |-> Idle]
    /\ clock = 0
    /\ logged_in = TRUE
    /\ served = 0
    /\ admin_hash = ADMIN_PASSWORD_HASH
    /\ database = DefaultContent
    /\ durations = CARD_DURATIONS

NextRevokes ==
    \/ Tick
    \/ \E t \in Threads :
        \/ /\ served = 0
           /\ revoke_begin(t, RaceDevice)
        \/ /\ served = 1
           /\ \E u \in Threads \ {t} : th[u].pc \in {"rev_del", "rev_upd"}
           /\ revoke_begin(t, RaceDevice)
        \/ revoke_delete(t)
        \/ revoke_commit(t)
        \/ /\ th[t].op = "revoke"
           /\ Respond(t)
        \/ /\ served = 2
           /\ \E d \in DeviceIds, c \in CodeTokens : activate_begin(t, d, c)
        \/ activate_select_device(t)
        \/ activate_update(t)
        \/ activate_insert(t)

SpecRevokes == InitRevokes /\ [][NextRevokes]_vars

\* ------------------------------------------------------------ after expiry
\* A device whose binding lapses: it is bound by K1 (one tick), K2 is unused
\* and of any plan type; the admin is logged in.  A status check starts only
\* while no other handler is in flight, so every request that runs while a
\* thread holds a status response was sent after that response.
InitExpiry ==
    /\ \E ty \in DOMAIN CARD_DURATIONS \cup {"legacy"} :
          codes = ("K1" :> [type |-> "monthly", used_by |-> RaceDevice])
                  @@ ("K2" :> [type |-> ty, used_by |-> NULL])
    /\ devices = {DeviceRow(RaceDevice, "K1", "monthly", 0, CARD_DURATIONS["monthly"])}
    /\ lock = NoThread
    /\ wcodes = codes
    /\ wdevices = devices
    /\ th = [t \in Threads |-> Idle]
    /\ clock = 0
    /\ logged_in = TRUE
    /\ served = 0
    /\ admin_hash = ADMIN_PASSWORD_HASH
    /\ database = DefaultContent
    /\ durations = CARD_DURATIONS

NextExpiry ==
    \/ Tick
    \/ \E t \in Threads :
        \/ /\ th[t].op # "check_status"
           /\ Respond(t)
        \/ /\ \A u \in Threads \ {t} : th[u].pc \in {"idle", "done"}
           /\ check_status(t, RaceDevice)
        \/ \E c \in CodeTokens : activate_begin(t, RaceDevice, c)
        \/ activate_select_device(t)
        \/ activate_update(t)
        \/ activate_insert(t)
        \/ revoke_begin(t, RaceDevice)
        \/ revoke_delete(t)
        \/ revoke_commit(t)
        \/ \E req \in ContentRequests : guard(t, req, RaceDevice)
        \/ content_body(t)

SpecExpiry == InitExpiry /\ [][NextExpiry]_vars

\* ------------------------------------------------------------ no device id
\* Client requests whose JSON body has no machine_id (or a null one):
\* request.json.get('machine_id') is None in lines 181, 303 and 320.
NextMissing ==
    \/ Tick
    \/ \E t \in Threads :
        \/ Respond(t)
        \/ check_status(t, NONE)
        \/ \E c \in CodeTokens : activate_begin(t, NONE, c)
        \/ activate_select_device(t)
        \/ activate_update(t)
        \/ activate_insert(t)
        \/ \E req \in ContentRequests : guard(t, req, NONE)
        \/ content_body(t)

SpecMissing == Init /\ [][NextMissing]_vars

\* ------------------------------------------------------------ configurations
\* Plan types of the config.json files considered, and the days each can be
\* given (line 63 builds timedelta(days=v) for whatever v the file holds).
ConfiguredPlans == {"monthly", "trial"}

ConfiguredDays == 0..MaxClock

\* A server started with any of these configurations; both codes are unused
\* and of a configured plan or of a plan the configuration lacks.
InitPlans ==
    /\ durations \in [ConfiguredPlans -> ConfiguredDays]
    /\ \E ty \in [CodeTokens -> ConfiguredPlans \cup {"legacy"}] :
          codes = [c \in CodeTokens |-> [type |-> ty[c], used_by |-> NULL]]
    /\ devices = {}
    /\ lock = NoThread
    /\ wcodes = codes
    /\ wdevices = devices
    /\ th = [t \in Threads |-> Idle]
    /\ clock = 0
    /\ logged_in = FALSE
    /\ served = 0
    /\ admin_hash = ADMIN_PASSWORD_HASH
    /\ database = DefaultContent

\* Devices activate, one request after the other.
NextPlans ==
    \/ Tick
    \/ \E t \in Threads :
        \/ Respond(t)
        \/ /\ \A u \in Threads \ {t} : th[u].pc \in {"idle", "done"}
           /\ \E d \in DeviceIds, c \in CodeTokens : activate_begin(t, d, c)
        \/ activate_select_device(t)
        \/ activate_update(t)
        \/ activate_insert(t)

SpecPlans == InitPlans /\ [][NextPlans]_vars

\* ------------------------------------------------------------ generation form
\* Submissions of the generation form: GET and POST, every quantity from 0 to
\* one above the limit, card types of either configuration and one of none.
GenerateForms ==
    [method : {"GET", "POST"}, quantity : 0..(GENERATE_CODE_LIMIT + 1),
     card_type : ConfiguredPlans \cup DOMAIN CARD_DURATIONS \cup {"bogus"}]

\* A server started with the default table or with any table over
\* ConfiguredPlans; the admin is logged in.
InitGenerate ==
    /\ durations \in {CARD_DURATIONS} \cup [ConfiguredPlans -> ConfiguredDays]
    /\ \E file \in OldCodesFiles : codes = MigrateCodes(file, EmptyTable)
    /\ devices = {}
    /\ lock = NoThread
    /\ wcodes = codes
    /\ wdevices = devices
    /\ th = [t \in Threads |-> Idle]
    /\ clock = 0
    /\ logged_in = TRUE
    /\ served = 0
    /\ admin_hash = ADMIN_PASSWORD_HASH
    /\ database = DefaultContent

\* The admin submits the form, possibly from two windows at once.
NextGenerate ==
    \E t \in Threads :
        \/ Respond(t)
        \/ \E form \in GenerateForms :
              manage_begin(t, form.method, form.quantity, form.card_type)
        \/ manage_commit(t)

SpecGenerate == InitGenerate /\ [][NextGenerate]_vars

\* ------------------------------------------------------------ index contents
\* Pinyin texts an entry can carry: spellings that differ in case only, a
\* different one, and the empty text the database builders store for an entry
\* without a reading.
PinyinTexts == {"Ma", "ma", "li", ""}

\* Contents of table dictionary (glyph is its PRIMARY KEY), by name: no
\* row, one row, or two rows, each with any of the pinyin texts.
IndexContents ==
    { <<>> }
    \cup { <<p>> : p \in PinyinTexts }
    \cup { <<p, q>> : p \in PinyinTexts, q \in PinyinTexts }

\* Pinyin queries: spellings in three cases, another reading, the empty
\* text and a text no entry carries.
IndexRequests ==
    { [endpoint |-> "advanced_search", query |-> q, search_type |-> "pinyin"] :
        q \in {"Ma", "MA", "ma", "li", "", "Z"} }

\* A server whose index was built from any of these contents; RaceDevice is
\* bound.
InitIndex ==
    /\ database \in IndexContents
    /\ codes = ("K1" :> [type |-> "monthly", used_by |-> RaceDevice])
    /\ devices = {DeviceRow(RaceDevice, "K1", "monthly", 0, CARD_DURATIONS["monthly"])}
    /\ lock = NoThread
    /\ wcodes = codes
    /\ wdevices = devices
    /\ th = [t \in Threads |-> Idle]
    /\ clock = 0
    /\ logged_in = FALSE
    /\ served = 0
    /\ admin_hash = ADMIN_PASSWORD_HASH
    /\ durations = CARD_DURATIONS

\* The device searches by pinyin.
NextIndex ==
    \/ Tick
    \/ \E t \in Threads :
        \/ Respond(t)
        \/ \E req \in IndexRequests : guard(t, req, RaceDevice)
        \/ content_body(t)

SpecIndex == InitIndex /\ [][NextIndex]_vars

\* ------------------------------------------------------------ admin hashes
\* ADMIN_PASSWORD_HASH values of the config.json files considered: the
\* well-formed one, the empty text of the default configuration (one empty
\* field), a text without '$', a text with two '$', a salt or a key that is
\* not hexadecimal, and an empty key.
AdminHashes ==
    { ADMIN_PASSWORD_HASH,
      << "" >>,
      << "salt" >>,
      << "salt", Pbkdf2("secret", "salt"), Pbkdf2("secret", "salt") >>,
      << NotHexSalt, Pbkdf2("secret", NotHexSalt) >>,
      << "salt", NotHexKey >>,
      << "salt", EmptyKey >> }

\* A server started with any of these hashes.
InitSessions ==
    /\ admin_hash \in AdminHashes
    /\ \E file \in OldCodesFiles : codes = MigrateCodes(file, EmptyTable)
    /\ devices = {}
    /\ lock = NoThread
    /\ wcodes = codes
    /\ wdevices = devices
    /\ th = [t \in Threads |-> Idle]
    /\ clock = 0
    /\ logged_in = FALSE
    /\ served = 0
    /\ durations = CARD_DURATIONS
    /\ database = DefaultContent

\* The admin's browser: login attempts, logout, and the pages behind the
\* session check.
NextSessions ==
    \/ \E password \in Passwords : login(password)
    \/ logout
    \/ \E t \in Threads :
        \/ Respond(t)
        \/ \E form \in FormInputs :
              manage_begin(t, form.method, form.quantity, form.card_type)
        \/ manage_commit(t)
        \/ \E args \in ManagementQueries : management_data_begin(t, args)
        \/ management_data_codes(t)
        \/ management_data_count(t)
        \/ management_data_devices(t)

SpecSessions == InitSessions /\ [][NextSessions]_vars

\* ------------------------------------------------------------ start-up
\* The thread that runs the __main__ block (lines 501-508); th holds its
\* position next to the worker threads' in the runs that start the process.
Main == "main"

Stopped == [Idle EXCEPT !.op = "__main__", !.pc = "stopped"]

\* The legacy files the first start finds: two codes, the first without a
\* type and redeemed by device d1, that device's binding, and the dictionary.
OldCodesFile ==
    << [code |-> "K1", used_by |-> "d1"],
       [code |-> "K2", type |-> "yearly", used_by |-> NULL] >>

OldDevicesFile == { DeviceRow("d1", "K1", "monthly", 0, 1) }

OldDictionaryFile == DefaultContent

\* The devices part of convert_json_to_sqlite: one row per key of the JSON
\* object, added with INSERT OR IGNORE.
MigrateDevices(file, tbl) ==
    tbl \cup {row \in file : ~PrimaryKeyTaken(tbl, row.machine_id)}

\* Before the first start: no database file, the process not running.
InitMigrate ==
    /\ database = NoFile
    /\ codes = EmptyTable
    /\ devices = {}
    /\ lock = NoThread
    /\ wcodes = codes
    /\ wdevices = devices
    /\ th = [t \in Threads \cup {Main} |-> IF t = Main THEN Stopped ELSE Idle]
    /\ clock = 0
    /\ logged_in = FALSE
    /\ served = 0
    /\ admin_hash = ADMIN_PASSWORD_HASH
    /\ durations = CARD_DURATIONS

\* The process starts.  convert_json_to_sqlite returns at once when the file
\* exists (lines 115-116); otherwise it opens a connection, which creates the
\* file (line 121).
convert_json_to_sqlite ==
    /\ th[Main].pc = "stopped"
    /\ IF database # NoFile
       THEN /\ th' = [th EXCEPT ![Main].pc = "build_indexes"]
            /\ UNCHANGED database
       ELSE /\ th' = [th EXCEPT ![Main].pc = "create_schema"]
            /\ database' = NoTables
    /\ NoStore
    /\ UNCHANGED <<clock, logged_in, served, durations, admin_hash>>

\* create_schema(conn): the three tables are created and committed (line 108).
create_schema ==
    /\ th[Main].pc = "create_schema"
    /\ th' = [th EXCEPT ![Main].pc = "codes"]
    /\ database' = <<>>
    /\ NoStore
    /\ UNCHANGED <<clock, logged_in, served, durations, admin_hash>>

\* Lines 125-137: the legacy codes are inserted in the open transaction.
migrate_codes ==
    /\ th[Main].pc = "codes"
    /\ th' = [th EXCEPT ![Main].pc = "devices"]
    /\ wcodes' = MigrateCodes(OldCodesFile, wcodes)
    /\ lock' = Main
    /\ UNCHANGED <<codes, devices, wdevices, clock, logged_in, served,
                   durations, database, admin_hash>>

\* Lines 140-151: the legacy devices are inserted in the same transaction.
migrate_devices ==
    /\ th[Main].pc = "devices"
    /\ th' = [th EXCEPT ![Main].pc = "dictionary"]
    /\ wdevices' = MigrateDevices(OldDevicesFile, wdevices)
    /\ UNCHANGED <<codes, devices, lock, wcodes, clock, logged_in, served,
                   durations, database, admin_hash>>

\* Lines 154-167: the legacy dictionary is inserted and conn.commit()
\* publishes the three imports together.
migrate_dictionary ==
    /\ th[Main].pc = "dictionary"
    /\ th' = [th EXCEPT ![Main].pc = "build_indexes"]
    /\ database' = OldDictionaryFile
    /\ Commit
    /\ UNCHANGED <<clock, logged_in, served, durations, admin_hash>>

MigratePositions == {"create_schema", "codes", "devices", "dictionary"}

\* except Exception (lines 170-175): a statement of the try block raised (here
\* a sqlite3.Error of the disk); the transaction is rolled back, the error is
\* logged, the database file is removed, and the exception ends the process.
migrate_except(e) ==
    /\ th[Main].pc \in MigratePositions
    /\ th' = [th EXCEPT ![Main].pc = "stopped", ![Main].logged = e]
    /\ database' = NoFile
    /\ Rollback
    /\ UNCHANGED <<clock, logged_in, served, durations, admin_hash>>

\* The process is interrupted or killed while it starts: KeyboardInterrupt is
\* not an Exception, so the except clause of line 170 does not run (and no
\* clause runs when the process is killed).  What was not committed is lost;
\* the file stays as it is.
KeyboardInterrupt ==
    /\ th[Main].pc \in MigratePositions \cup {"build_indexes"}
    /\ th' = [th EXCEPT ![Main].pc = "stopped"]
    /\ Rollback
    /\ UNCHANGED <<clock, logged_in, served, durations, database, admin_hash>>

\* build_indexes() and serve(...) (lines 503-508): the SELECT of line 204
\* raises on a file without tables and the process ends; otherwise the worker
\* threads begin to take requests.
build_indexes ==
    /\ th[Main].pc = "build_indexes"
    /\ th' = [th EXCEPT ![Main].pc =
                 IF database = NoTables THEN "stopped" ELSE "serving"]
    /\ NoStore
    /\ UNCHANGED <<clock, logged_in, served, durations, database, admin_hash>>

\* serve(app, ...) has been reached (line 508): the worker threads run.
Serving == th[Main].pc = "serving"

\* The server is stopped while no request is being handled.
shutdown ==
    /\ Serving
    /\ \A t \in Threads : th[t] = Idle
    /\ th' = [th EXCEPT ![Main].pc = "stopped"]
    /\ NoStore
    /\ UNCHANGED <<clock, logged_in, served, durations, database, admin_hash>>

\* Starts, failures and interruptions of the start, and the requests of the
\* clients while the process serves.
NextMigrate ==
    \/ Tick
    \/ convert_json_to_sqlite
    \/ create_schema
    \/ migrate_codes
    \/ migrate_devices
    \/ migrate_dictionary
    \/ \E e \in DiskErrors : migrate_except(e)
    \/ KeyboardInterrupt
    \/ build_indexes
    \/ shutdown
    \/ \E t \in Threads :
        \/ Serving /\ Respond(t)
        \/ \E d \in DeviceIds : Serving /\ check_status(t, d)
        \/ \E d \in DeviceIds, c \in CodeTokens : Serving /\ activate_begin(t, d, c)
        \/ Serving /\ activate_select_device(t)
        \/ Serving /\ activate_update(t)
        \/ Serving /\ activate_insert(t)

SpecMigrate == InitMigrate /\ [][NextMigrate]_vars

\* The same without interruptions: every failure of the start is an Exception.
NextMigrateExceptions ==
    \/ Tick
    \/ convert_json_to_sqlite
    \/ create_schema
    \/ migrate_codes
    \/ migrate_devices
    \/ migrate_dictionary
    \/ \E e \in DiskErrors : migrate_except(e)
    \/ build_indexes
    \/ shutdown
    \/ \E t \in Threads :
        \/ Serving /\ Respond(t)
        \/ \E d \in DeviceIds : Serving /\ check_status(t, d)
        \/ \E d \in DeviceIds, c \in CodeTokens : Serving /\ activate_begin(t, d, c)
        \/ Serving /\ activate_select_device(t)
        \/ Serving /\ activate_update(t)
        \/ Serving /\ activate_insert(t)

SpecMigrateExceptions == InitMigrate /\ [][NextMigrateExceptions]_vars

\* ------------------------------------------------------------ properties
\* The bindings of a device.
Bindings(d) == {row \in devices : row.machine_id = d}

ContentOps == {"get_identities", "advanced_search"}

Succeeded(t) == th[t].pc = "done" /\ th[t].resp.status = 200

\* C1: when the concurrent activations of one unused code by distinct unbound
\* devices have all returned (none with a storage error), exactly one of them
\* succeeded and every other one was rejected with InvalidCode.
C1_ExactlyOneSucceeds ==
    (\A t \in Threads : th[t].pc = "done" /\ th[t].resp.kind # "storage_error")
    => /\ Cardinality({t \in Threads : Succeeded(t)}) = 1
       /\ \A t \in Threads :
            ~Succeeded(t) => th[t].resp.status = 403 /\ th[t].resp.kind = "invalid_code"

\* C2: no two device bindings reference the same activation code.
C2_NoSharedCode ==
    \A r1 \in devices, r2 \in devices :
        r1.machine_id # r2.machine_id => r1.activation_code # r2.activation_code

\* C3: the committed tables agree: a code is marked used by d exactly when a
\* binding of d with that code exists.
C3_TablesAgree ==
    /\ \A c \in DOMAIN codes :
          codes[c].used_by # NULL =>
             \E row \in devices : row.machine_id = codes[c].used_by
                                  /\ row.activation_code = c
    /\ \A row \in devices :
          /\ row.activation_code \in DOMAIN codes
          /\ codes[row.activation_code].used_by = row.machine_id

\* C5: used_by of a code only goes from null to a device, by that device's
\* successful activate of the code, and from a device to null, by a revoke;
\* it never goes from one device to another.
C5_Step ==
    \A c \in DOMAIN codes :
        /\ c \in DOMAIN codes'
        /\ codes'[c].used_by # codes[c].used_by =>
            \/ /\ codes[c].used_by = NULL
               /\ \E t \in Threads :
                    /\ th[t].op = "activate"
                    /\ th[t].code_str = c
                    /\ th[t].machine_id = codes'[c].used_by
                    /\ th'[t].pc = "done"
                    /\ th'[t].resp.status = 200
            \/ /\ codes'[c].used_by = NULL
               /\ \E t \in Threads : th[t].op = "revoke" /\ th'[t].resp.status = 200

\* C5: every step changes used_by of a code only from null to a device (by
\* that device's successful activate) or from a device to null (by a revoke).
C5_UsedByTransitions == [][C5_Step]_vars

\* C4: a device never has two bindings, and the device check of activate for
\* a device that has a binding answers AlreadyBound (409) and leaves both
\* tables as they are.
C4_AtMostOne ==
    \A r1 \in devices, r2 \in devices : r1.machine_id = r2.machine_id => r1 = r2

C4_Step ==
    \A t \in Threads :
        (th[t].pc = "sel_device" /\ th'[t] # th[t] /\ Bindings(th[t].machine_id) # {})
        => /\ th'[t].pc = "done"
           /\ th'[t].resp.status = 409
           /\ th'[t].resp.kind = "already_bound"
           /\ devices' = devices
           /\ codes' = codes

\* C4: at most one binding per device in every state, and activate for a
\* bound device fails with AlreadyBound (409) without changing a table.
C4_AlreadyBound == []C4_AtMostOne /\ [][C4_Step]_vars

C4_Witness ==
    \E t \in Threads :
        /\ th[t].op = "activate"
        /\ th[t].pc = "done"
        /\ th[t].resp.status = 409
        /\ th[t].code_str \in DOMAIN codes
        /\ codes[th[t].code_str].used_by = NULL
        /\ \E row \in Bindings(th[t].machine_id) : row.activation_code # th[t].code_str

\* C6: the step on which activate(d, c) succeeds adds exactly the binding
\* (d, c, plan of c, now, now + duration of the plan) and sets c.used_by = d,
\* changing nothing else; every binding has expires_at = activated_at + the
\* duration of its plan.
C6_Inv ==
    \A row \in devices :
        /\ row.card_type \in DOMAIN CARD_DURATIONS
        /\ row.activated_at.tz = "Z"
        /\ row.expires_at.tz = "Z"
        /\ Inst(row.expires_at) = Inst(row.activated_at) + CARD_DURATIONS[row.card_type]

C6_Step ==
    \A t \in Threads :
        (th[t].pc = "ins" /\ th'[t].pc = "done" /\ th'[t].resp.status = 200)
        => LET d == th[t].machine_id
               c == th[t].code_str
           IN /\ c \in DOMAIN codes
              /\ codes[c].type \in DOMAIN CARD_DURATIONS
              /\ th[t].now <= clock
              /\ Bindings(d) = {}
              /\ devices' = devices \cup
                    {[machine_id |-> d, activation_code |-> c,
                      card_type |-> codes[c].type,
                      activated_at |-> [inst |-> th[t].now, tz |-> "Z"],
                      expires_at |-> [inst |-> th[t].now + CARD_DURATIONS[codes[c].type],
                                      tz |-> "Z"]]}
              /\ codes' = [codes EXCEPT ![c].used_by = d]

\* C6: a successful activate creates exactly the binding the claim describes
\* and marks the code, and every binding expires a plan duration after its
\* activation.
C6_ActivateEffect == []C6_Inv /\ [][C6_Step]_vars

C6_Witness ==
    \E t \in Threads :
        /\ th[t].op = "activate"
        /\ Succeeded(t)
        /\ \E row \in Bindings(th[t].machine_id) :
              /\ row.activation_code = th[t].code_str
              /\ row.card_type = "yearly"
              /\ codes[th[t].code_str].used_by = th[t].machine_id

\* C7: check_status answers unactivated iff the device has no binding,
\* activated (with the binding's plan and expires_at) iff it has one with
\* expires_at > now, expired (with its expires_at) iff it has one with
\* expires_at <= now, and changes nothing.
C7_Step ==
    \A t \in Threads :
        (th[t].pc = "idle" /\ th'[t].op = "check_status" /\ th'[t].machine_id # "")
        => LET rows == Bindings(th'[t].machine_id)
               resp == th'[t].resp
           IN /\ th'[t].pc = "done"
              /\ resp.status = 200
              /\ resp.kind \in {"unactivated", "activated", "expired"}
              /\ resp.kind = "unactivated" <=> rows = {}
              /\ resp.kind = "activated" <=> \E row \in rows : Inst(row.expires_at) > clock
              /\ resp.kind = "expired" <=> \E row \in rows : Inst(row.expires_at) <= clock
              /\ resp.kind = "activated" =>
                    \E row \in rows : /\ resp.expires_at = row.expires_at
                                      /\ resp.card_type = row.card_type
              /\ resp.kind = "expired" =>
                    \E row \in rows : resp.expires_at = row.expires_at
              /\ devices' = devices
              /\ codes' = codes

\* C7: every check_status step classifies the device as the claim states.
C7_CheckStatus == [][C7_Step]_vars

C7_Witness ==
    \E t1 \in Threads, t2 \in Threads :
        /\ th[t1].op = "check_status" /\ th[t1].resp.kind = "activated"
        /\ th[t2].op = "check_status" /\ th[t2].resp.kind = "expired"
        /\ th[t1].machine_id = th[t2].machine_id

\* C8: a request served at the very instant a binding expires finds it
\* expired: check_status answers expired, the guard rejects with Expired.
C8_Step ==
    \A t \in Threads :
        (/\ th[t].pc = "idle"
         /\ th'[t].op \in ContentOps \cup {"check_status"}
         /\ \E row \in Bindings(th'[t].machine_id) : Inst(row.expires_at) = clock)
        => /\ th'[t].pc = "done"
           /\ th'[t].resp.kind = "expired"
           /\ th'[t].op \in ContentOps => th'[t].resp.status = 403

\* C8: at expires_at = now both check_status and the guard answer Expired.
C8_Boundary == [][C8_Step]_vars

C8_Witness ==
    \E t1 \in Threads, t2 \in Threads :
        /\ th[t1].op = "check_status" /\ th[t1].resp.kind = "expired"
        /\ Inst(th[t1].resp.expires_at) = clock
        /\ th[t2].op \in ContentOps /\ th[t2].resp.kind = "expired"
        /\ \E row \in Bindings(th[t2].machine_id) : Inst(row.expires_at) = clock

\* C9: the guard lets the body of a content endpoint run iff the device has a
\* binding with expires_at > now; it answers Unauthorized without a binding
\* and Expired with expires_at <= now; only a body that the guard let run
\* reads the content index.
C9_Inv ==
    \A t \in Threads :
        /\ th[t].consulted => th[t].op \in ContentOps /\ th[t].resp.status \notin {400, 403}
        /\ th[t].pc = "body" => th[t].op \in ContentOps

C9_Step ==
    \A t \in Threads :
        /\ (th[t].pc = "idle" /\ th'[t].op \in ContentOps /\ th'[t].machine_id # "")
           => LET rows == Bindings(th'[t].machine_id)
                  resp == th'[t].resp
              IN /\ ~th'[t].consulted
                 /\ rows = {} =>
                       th'[t].pc = "done" /\ resp.status = 403 /\ resp.kind = "unauthorized"
                 /\ (\E row \in rows : Inst(row.expires_at) <= clock) =>
                       th'[t].pc = "done" /\ resp.status = 403 /\ resp.kind = "expired"
                 /\ th'[t].pc = "body" <=> \E row \in rows : Inst(row.expires_at) > clock
        /\ (th'[t].pc = "body" /\ th[t].pc # "body") => th[t].pc = "idle"
        /\ (th'[t].consulted /\ ~th[t].consulted) => th[t].pc = "body"

\* C9: the guard admits exactly the devices with an unexpired binding, and
\* the content index is read only behind it.
C9_Guard == []C9_Inv /\ [][C9_Step]_vars

C9_Witness ==
    \E t1 \in Threads, t2 \in Threads :
        /\ th[t1].op \in ContentOps /\ th[t1].consulted /\ th[t1].resp.status = 200
        /\ th[t2].op \in ContentOps /\ th[t2].resp.kind = "expired" /\ ~th[t2].consulted
        /\ th[t1].machine_id = th[t2].machine_id

\* C10: activate with a code that is absent from codes, or whose used_by is
\* set, answers InvalidCode (403) and modifies neither table.
C10_Step ==
    \A t \in Threads :
        (/\ th[t].pc = "idle"
         /\ th'[t].op = "activate"
         /\ th'[t].machine_id # ""
         /\ th'[t].code_str \notin {NONE, ""}
         /\ \/ th'[t].code_str \notin DOMAIN codes
            \/ codes[th'[t].code_str].used_by # NULL)
        => /\ th'[t].pc = "done"
           /\ th'[t].resp.status = 403
           /\ th'[t].resp.kind = "invalid_code"
           /\ UNCHANGED <<codes, devices, wcodes, wdevices, lock>>

\* C10: an absent or already used code is rejected with InvalidCode and no
\* table is modified.
C10_InvalidCode == [][C10_Step]_vars

C10_Witness ==
    \E t \in Threads :
        /\ th[t].op = "activate"
        /\ th[t].resp.status = 403
        /\ th[t].code_str \in DOMAIN codes
        /\ codes[th[t].code_str].used_by \notin {NULL, th[t].machine_id}

\* C11 as stated: the device check of activate for a code whose plan type is
\* not configured answers UnknownPlan, whatever the device.
C11_Step_AnyDevice ==
    \A t \in Threads :
        (/\ th[t].pc = "sel_device"
         /\ th'[t] # th[t]
         /\ th[t].card_type \notin DOMAIN CARD_DURATIONS)
        => /\ th'[t].pc = "done"
           /\ th'[t].resp.kind = "unknown_plan"

\* C11 (as stated): activate of an existing unused code whose plan type is not
\* configured fails with UnknownPlan for every device.
C11_UnknownPlanAnyDevice == [][C11_Step_AnyDevice]_vars

C11_Step ==
    \A t \in Threads :
        (/\ th[t].pc = "sel_device"
         /\ th'[t] # th[t]
         /\ th[t].card_type \notin DOMAIN CARD_DURATIONS)
        => /\ th'[t].pc = "done"
           /\ IF Bindings(th[t].machine_id) = {}
              THEN th'[t].resp.status = 500 /\ th'[t].resp.kind = "unknown_plan"
              ELSE th'[t].resp.status = 409 /\ th'[t].resp.kind = "already_bound"
           /\ UNCHANGED <<codes, devices, wcodes, wdevices, lock>>

\* C11 (amended): activate of an existing unused code whose plan type is not
\* configured fails with UnknownPlan when the device has no binding and with
\* AlreadyBound when it has one; no binding is created, the code stays unused.
C11_UnknownPlan == [][C11_Step]_vars

C11_Witness ==
    \E t \in Threads :
        /\ th[t].op = "activate"
        /\ th[t].pc = "done"
        /\ th[t].resp.status = 500
        /\ th[t].resp.kind = "unknown_plan"
        /\ th[t].code_str \in DOMAIN codes
        /\ codes[th[t].code_str].type \notin DOMAIN CARD_DURATIONS
        /\ codes[th[t].code_str].used_by = NULL
        /\ Bindings(th[t].machine_id) = {}

\* C12: in the round trip, the activate that follows the revoke succeeds, and
\* the device that presented the code is then bound to it with the code's plan
\* type.
C12_Inv ==
    \A t \in Threads, u \in Threads :
        (/\ t # u
         /\ served = 3
         /\ th[u].op = "activate" /\ th[u].pc = "done"
         /\ th[t].op = "activate" /\ th[t].pc = "done")
        => LET c == th[t].code_str
           IN /\ c = th[u].code_str
              /\ th[t].resp.status = 200
              /\ codes[c].used_by \in {th[t].machine_id, th[u].machine_id}
              /\ \E row \in devices :
                    /\ devices = {row}
                    /\ row.machine_id = codes[c].used_by
                    /\ row.activation_code = c
                    /\ row.card_type = codes[c].type

\* The second activate of the round trip inserts a binding with the
\* timestamps of its own run, into a table the revoke left empty.
C12_Step ==
    \A t \in Threads :
        (served = 3 /\ th[t].pc = "ins" /\ th'[t].pc = "done")
        => /\ devices = {}
           /\ devices' =
                 {[machine_id |-> th[t].machine_id,
                   activation_code |-> th[t].code_str,
                   card_type |-> codes[th[t].code_str].type,
                   activated_at |-> [inst |-> th[t].now, tz |-> "Z"],
                   expires_at |->
                      [inst |-> th[t].now + CARD_DURATIONS[codes[th[t].code_str].type],
                       tz |-> "Z"]]}

\* C12: revoke(d) followed by activate(d', c) of the code d was bound to
\* succeeds for d' = d and for any other unbound device d', and yields a
\* binding with the same code and plan type and fresh timestamps.
C12_RoundTrip == []C12_Inv /\ [][C12_Step]_vars

C12_Witness ==
    \E t \in Threads, u \in Threads :
        /\ t # u
        /\ served = 3
        /\ th[u].op = "activate" /\ Succeeded(u)
        /\ th[t].op = "activate" /\ Succeeded(t)
        /\ th[t].machine_id = th[u].machine_id
        /\ \E row \in Bindings(th[t].machine_id) :
              row.activation_code = th[u].code_str /\ Inst(row.activated_at) > 0

\* C13: a revoke by the logged-in admin for a device without a binding answers
\* NotFound and changes nothing; the committing step of a revoke for a device
\* whose binding is in place removes exactly that binding and sets used_by of
\* exactly its code to null.
C13_Step ==
    \A t \in Threads :
        /\ (/\ th[t].pc = "idle"
            /\ th'[t].op = "revoke"
            /\ logged_in
            /\ th'[t].machine_id \notin {"", NONE})
           => /\ IF Bindings(th'[t].machine_id) = {}
                 THEN /\ th'[t].pc = "done"
                      /\ th'[t].resp.status = 404
                      /\ th'[t].resp.kind = "not_found"
                 ELSE th'[t].pc = "rev_del"
              /\ UNCHANGED <<codes, devices, wcodes, wdevices, lock>>
        /\ (/\ th[t].pc = "rev_upd"
            /\ th'[t].pc = "done"
            /\ \E row \in Bindings(th[t].machine_id) :
                  row.activation_code = th[t].code_to_reset)
           => /\ th'[t].resp.status = 200
              /\ th'[t].resp.kind = "revoked"
              /\ devices' = devices \ Bindings(th[t].machine_id)
              /\ th[t].code_to_reset \in DOMAIN codes
              /\ codes' = [codes EXCEPT ![th[t].code_to_reset].used_by = NULL]

\* C13: revoke of a bound device deletes its binding and nulls its code's
\* used_by, changing no other row; revoke of an unbound device answers 404 and
\* changes nothing.
C13_Revoke == [][C13_Step]_vars

C13_Witness ==
    \E t \in Threads, u \in Threads :
        /\ th[t].op = "revoke" /\ th[t].resp.status = 200
        /\ th[u].op = "revoke" /\ th[u].resp.status = 404
        /\ th[t].machine_id = th[u].machine_id
        /\ Bindings(th[t].machine_id) = {}
        /\ \E c \in DOMAIN codes : codes[c].used_by = NULL

\* C14 (as stated): two check_status responses for one device, with no
\* mutation of the store between the calls, are identical.
C14_Identical ==
    \A t \in Threads, u \in Threads :
        (/\ th[t].op = "check_status" /\ th[t].pc = "done"
         /\ th[u].op = "check_status" /\ th[u].pc = "done"
         /\ th[t].machine_id = th[u].machine_id)
        => th[t].resp = th[u].resp

C14_Step ==
    \A t \in Threads, u \in Threads :
        (/\ t # u
         /\ th[t].pc = "idle"
         /\ th'[t].op = "check_status"
         /\ th[u].op = "check_status" /\ th[u].pc = "done"
         /\ th[u].machine_id = th'[t].machine_id)
        => /\ th'[t].pc = "done"
           /\ th'[t].resp =
                 IF /\ th[u].resp.kind = "activated"
                    /\ Inst(th[u].resp.expires_at) <= clock
                 THEN [th[u].resp EXCEPT !.kind = "expired", !.card_type = ""]
                 ELSE th[u].resp

\* C14 (amended): with no mutation of the store in between, a second
\* check_status of a device returns the result of the first, unless the first
\* was Activated and the time has since reached the binding's expires_at: then
\* the second is Expired with the same expires_at.
C14_StableUntilExpiry == [][C14_Step]_vars

C14_Witness ==
    \E t \in Threads, u \in Threads :
        /\ t # u
        /\ th[t].op = "check_status" /\ th[t].pc = "done"
        /\ th[u].op = "check_status" /\ th[u].pc = "done"
        /\ th[t].machine_id = th[u].machine_id
        /\ th[t].resp.kind = "activated"
        /\ th[u].resp = th[t].resp
        /\ Bindings(th[t].machine_id) # {}

\* The handlers that only read: check_status, the guarded content endpoints
\* and the admin listing.
ReadOps == ContentOps \cup {"check_status", "management_data"}

\* C15: a step of a reading handler changes neither table (nor any open
\* transaction); a step that adds a binding is a successful activate of that
\* device, a step that removes one is a successful revoke of that device.
C15_Step ==
    /\ \A t \in Threads :
          (th'[t] # th[t] /\ (th[t].op \in ReadOps \/ th'[t].op \in ReadOps))
          => UNCHANGED <<codes, devices, wcodes, wdevices, lock>>
    /\ \A row \in devices' \ devices :
          \E t \in Threads :
            /\ th[t].op = "activate"
            /\ th[t].pc = "ins"
            /\ th'[t].pc = "done"
            /\ th'[t].resp.status = 200
            /\ row.machine_id = th[t].machine_id
    /\ \A row \in devices \ devices' :
          \E t \in Threads :
            /\ th[t].op = "revoke"
            /\ th[t].pc = "rev_upd"
            /\ th'[t].pc = "done"
            /\ th'[t].resp.status = 200
            /\ row.machine_id = th[t].machine_id

\* C15: check_status, the guard, the content endpoints and the listing never
\* change the tables; bindings appear only by a successful activate and
\* disappear only by a revoke.
C15_ReadsDoNotWrite == [][C15_Step]_vars

C15_Witness ==
    \E t \in Threads, u \in Threads :
        /\ th[t].op = "check_status" /\ th[t].resp.kind = "expired"
        /\ th[u].op \in ContentOps /\ th[u].resp.kind = "expired"
        /\ th[t].machine_id = th[u].machine_id
        /\ \E row \in Bindings(th[t].machine_id) : Inst(row.expires_at) <= clock

\* C16: while no binding is revoked, a check_status or a guarded request of
\* device d that starts after an activate of d has returned success, and
\* before the expires_at that activate reported, finds the binding:
\* check_status answers activated and the guard lets the body run; at no time
\* after the success does check_status answer unactivated or the guard
\* unauthorized.
C16_Step ==
    \A t \in Threads, u \in Threads :
        (/\ th[u].op = "activate" /\ Succeeded(u)
         /\ th[t].pc = "idle"
         /\ th'[t].machine_id = th[u].machine_id
         /\ th'[t].op \in ContentOps \cup {"check_status"})
        => /\ th'[t].resp.kind \notin {"unactivated", "unauthorized"}
           /\ clock < Inst(th[u].resp.expires_at) =>
                 IF th'[t].op = "check_status"
                 THEN th'[t].resp.kind = "activated"
                 ELSE th'[t].pc = "body"

\* C16: a successful activation is visible to every later status check and
\* guard check of the device.
C16_VisibleAfterSuccess == [][C16_Step]_vars

C16_Witness ==
    \E t \in Threads, u \in Threads :
        /\ th[u].op = "activate" /\ Succeeded(u)
        /\ th[t].op \in ContentOps
        /\ th[t].machine_id = th[u].machine_id
        /\ th[t].consulted
        /\ th[t].resp.status = 200
        /\ clock < Inst(th[u].resp.expires_at)

\* C17: a step of /manage that does not commit leaves the committed tables as
\* they are, and a request that ends without committing inserted nothing; the
\* committing step adds exactly quantity rows, all of the submitted plan type
\* and unused, and keeps every row that was there and every binding.
C17_Step ==
    \A t \in Threads :
        /\ (th[t].pc = "idle" /\ th'[t].op = "manage")
           => /\ codes' = codes
              /\ devices' = devices
              /\ th'[t].pc = "done" => UNCHANGED <<wcodes, wdevices, lock>>
              /\ th'[t].pc # "done" =>
                    /\ th'[t].pc = "gen_commit"
                    /\ FormValid("POST", th'[t].quantity, th'[t].card_type)
        /\ (th[t].pc = "gen_commit" /\ th'[t] # th[t])
           => LET new == DOMAIN codes' \ DOMAIN codes
              IN /\ th'[t].resp.kind = "generated"
                 /\ Cardinality(new) = th[t].quantity
                 /\ \A c \in new :
                       codes'[c] = [type |-> th[t].card_type, used_by |-> NULL]
                 /\ \A c \in DOMAIN codes : c \in DOMAIN codes' /\ codes'[c] = codes[c]
                 /\ devices' = devices

\* C17: generateCodes(n, planType) inserts exactly n new, distinct, unused
\* rows of that plan type or none at all, and changes no existing row and no
\* binding.
C17_Generate == [][C17_Step]_vars

C17_Witness ==
    \E t \in Threads, u \in Threads :
        /\ th[t].op = "manage" /\ th[t].resp.kind = "generated"
        /\ th[u].op = "manage" /\ th[u].resp.kind = "generate_failed"
        /\ Cardinality(DOMAIN codes) = 2
        /\ \A c \in DOMAIN codes : codes[c] = [type |-> "yearly", used_by |-> NULL]

\* The admin's operations: revoke, code generation and the listing.
AdminOps == {"revoke", "manage", "management_data"}

\* C18: a revoke, a generation or a listing request that arrives while the
\* session is not logged in is answered at once with 401 (or, for /manage,
\* the redirect to the login page), carries no data of the store and changes
\* no table; this holds before the first login and after every logout.
C18_Step ==
    \A t \in Threads :
        (th[t].pc = "idle" /\ th'[t].op \in AdminOps /\ ~logged_in)
        => /\ th'[t].pc = "done"
           /\ IF th'[t].op = "manage"
              THEN th'[t].resp.status = 302 /\ th'[t].resp.kind = "login_redirect"
              ELSE th'[t].resp.status = 401 /\ th'[t].resp.kind = "unauthorized"
           /\ th'[t].resp.items = <<>>
           /\ th'[t].resp.expires_at = NoTime
           /\ th'[t].resp.card_type = ""
           /\ UNCHANGED <<codes, devices, wcodes, wdevices, lock>>

\* C18: the admin operations take effect only for a logged-in session.
C18_AdminOnly == [][C18_Step]_vars

C18_Witness ==
    \E t \in Threads, u \in Threads :
        /\ th[t].op = "revoke" /\ th[t].resp.status = 200
        /\ th[u].op = "revoke" /\ th[u].resp.status = 401
        /\ ~logged_in

\* C19 as stated: the success response of activate carries the plan type of
\* the redeemed code and the instant of the stored expires_at.
C19_Step_WithPlan ==
    \A t \in Threads :
        (th[t].pc = "ins" /\ th'[t].pc = "done" /\ th'[t].resp.status = 200)
        => /\ th'[t].resp.card_type = codes[th[t].code_str].type
           /\ \E row \in devices' :
                 /\ row.machine_id = th[t].machine_id
                 /\ FromIsoFormat(th'[t].resp.expires_at) = ParseStored(row.expires_at)

C19_Step ==
    \A t \in Threads :
        /\ (th[t].pc = "ins" /\ th'[t].pc = "done" /\ th'[t].resp.status = 200)
           => /\ th'[t].resp.card_type = ""
              /\ \E row \in devices' :
                    /\ row.machine_id = th[t].machine_id
                    /\ row.activation_code = th[t].code_str
                    /\ ParseStored(row.expires_at) # ParseError
                    /\ FromIsoFormat(th'[t].resp.expires_at) = ParseStored(row.expires_at)
        /\ \A u \in Threads :
              (/\ th[u].op = "activate" /\ Succeeded(u)
               /\ th[t].pc = "idle"
               /\ th'[t].op = "check_status"
               /\ th'[t].machine_id = th[u].machine_id)
              => /\ th'[t].resp.kind \in {"activated", "expired"}
                 /\ ParseStored(th'[t].resp.expires_at)
                       = FromIsoFormat(th[u].resp.expires_at)

Listed(t) == {th[t].resp.items[i] : i \in DOMAIN th[t].resp.items}

GroupOf(leader) ==
    {g \in Glyphs : dictionary_data[g].phonetic_radical = leader \/ g = leader}

GroupAnswered(t) ==
    /\ th[t].op = "advanced_search"
    /\ th[t].search_type = "phonetic_group"
    /\ th[t].pc = "done"
    /\ th[t].resp.kind = "results"

\* C20 (as stated): the group listed for key k is the group of k's
\* back-reference whenever k has one, and the group of k itself only when k
\* has none and is marked as a leader.
C20_BackReferenceFirst ==
    \A t \in Threads :
        (GroupAnswered(t) /\ th[t].query \in Glyphs)
        => LET entry == dictionary_data[th[t].query]
           IN /\ entry.phonetic_radical # NONE
                    => Listed(t) = GroupOf(entry.phonetic_radical)
              /\ (entry.phonetic_radical = NONE /\ entry.is_phonetic_radical)
                    => Listed(t) = GroupOf(th[t].query)

\* C20 (amended): the group listed for key k is the group of k itself
\* whenever k is marked as a leader, and the group of k's back-reference when
\* k is not a leader and has one; a key with neither lists its own entry, a
\* text that is no key lists nothing.
C20_LeaderFirst ==
    \A t \in Threads :
        GroupAnswered(t)
        => IF th[t].query \notin Glyphs THEN Listed(t) = {}
           ELSE LET entry == dictionary_data[th[t].query]
                IN IF entry.is_phonetic_radical
                   THEN Listed(t) = GroupOf(th[t].query)
                   ELSE IF entry.phonetic_radical # NONE
                   THEN Listed(t) = GroupOf(entry.phonetic_radical)
                   ELSE Listed(t) = {th[t].query}

C20_Witness ==
    \E t \in Threads :
        /\ GroupAnswered(t)
        /\ th[t].query = "D"
        /\ dictionary_data["D"].is_phonetic_radical
        /\ dictionary_data["D"].phonetic_radical = "A"
        /\ Listed(t) = {"D", "E"}

\* The glyphs of the entries that match a query in a mode.
Matching(search_type, query) ==
    IF search_type = "definition" THEN {g \in Glyphs : g = query}
    ELSE IF search_type = "pinyin"
    THEN {g \in Glyphs : /\ dictionary_data[g].pinyin # ""
                          /\ Lower(dictionary_data[g].pinyin) = Lower(query)}
    ELSE IF search_type = "char_type"
    THEN {g \in Glyphs : \E i \in DOMAIN dictionary_data[g].char_type :
                             dictionary_data[g].char_type[i] = query}
    ELSE IF search_type = "phonetic_group"
    THEN (IF query \notin Glyphs THEN {}
          ELSE IF dictionary_data[query].is_phonetic_radical THEN GroupOf(query)
          ELSE IF dictionary_data[query].phonetic_radical # NONE
          THEN GroupOf(dictionary_data[query].phonetic_radical)
          ELSE {query})
    ELSE {}

\* C21: in every query mode the list advanced_search returns holds no glyph
\* twice and holds every matching entry, also when an entry lists the queried
\* class tag more than once.
C21_NoDuplicates ==
    \A t \in Threads :
        (th[t].op = "advanced_search" /\ th[t].pc = "done" /\ th[t].resp.kind = "results")
        => /\ \A i \in DOMAIN th[t].resp.items, j \in DOMAIN th[t].resp.items :
                 i # j => th[t].resp.items[i] # th[t].resp.items[j]
           /\ Listed(t) = Matching(th[t].search_type, th[t].query)

C21_Witness ==
    \E t \in Threads :
        /\ th[t].op = "advanced_search"
        /\ th[t].pc = "done"
        /\ th[t].search_type = "char_type"
        /\ th[t].query = "common"
        /\ Count(dictionary_data["B"].char_type, "common") = 2
        /\ th[t].resp.items = <<"A", "B">>

\* The response of a handler that caught a storage error.
GenericFailure == [NoResp EXCEPT !.status = 500, !.kind = "storage_error"]

Failed(t) == th[t].pc = "done" /\ th[t].logged # ""

\* C22: a store failure inside activate or revoke is answered with status 500
\* and a constant message, whatever the storage error was: any two requests
\* that failed, with the same or with different errors, got the same response.
C22_GenericFailure ==
    /\ \A t \in Threads :
          Failed(t) => /\ th[t].op \in {"activate", "revoke"}
                       /\ th[t].resp = GenericFailure
    /\ \A t \in Threads, u \in Threads :
          (Failed(t) /\ Failed(u)) => th[t].resp = th[u].resp

C22_Witness ==
    \E t \in Threads, u \in Threads :
        /\ Failed(t) /\ th[t].op = "activate"
        /\ Failed(u) /\ th[u].op = "revoke"
        /\ th[t].logged # th[u].logged
        /\ th[t].resp = th[u].resp

\* A listing response: total and rows of the codes, total and rows of the
\* devices.
Listing(t) ==
    th[t].op = "management_data" /\ th[t].pc = "done" /\ th[t].resp.status = 200

TotalCodes(t) == th[t].resp.items[1]

CodeItems(t) == th[t].resp.items[2]

TotalDevices(t) == th[t].resp.items[3]

DeviceItems(t) == th[t].resp.items[4]

CodesListed(t) == {CodeItems(t)[i].code : i \in DOMAIN CodeItems(t)}

DevicesListed(t) == {DeviceItems(t)[i] : i \in DOMAIN DeviceItems(t)}

MatchingCodes(args) == {c \in DOMAIN codes : CodeMatches(codes, c, args)}

MatchingDevices(args) == {row \in devices : DeviceMatches(row, args)}

\* Two responses to the same filter and page size.
SameListing(t, u) ==
    /\ Listing(t)
    /\ Listing(u)
    /\ [th[t].args EXCEPT !.code_page = 0, !.device_page = 0]
         = [th[u].args EXCEPT !.code_page = 0, !.device_page = 0]

\* C23, totals and page size: a page holds at most per_page rows, none twice,
\* and the total is the number of matching rows.
C23_Totals ==
    \A t \in Threads :
        Listing(t)
        => /\ TotalCodes(t) = Cardinality(MatchingCodes(th[t].args))
           /\ TotalDevices(t) = Cardinality(MatchingDevices(th[t].args))
           /\ Len(CodeItems(t)) <= th[t].args.code_per_page
           /\ Len(DeviceItems(t)) <= th[t].args.device_per_page
           /\ Cardinality(CodesListed(t)) = Len(CodeItems(t))
           /\ Cardinality(DevicesListed(t)) = Len(DeviceItems(t))

\* C23, code listing: distinct pages share no code, page 1 alone or pages 1
\* and 2 together hold every matching code when the total fits them.
C23_CodePages ==
    \A t \in Threads, u \in Threads :
        LET n == th[t].args.code_per_page
        IN /\ (SameListing(t, u) /\ th[t].args.code_page # th[u].args.code_page)
                 => CodesListed(t) \cap CodesListed(u) = {}
           /\ (SameListing(t, u) /\ th[t].args.code_page = 1
                 /\ th[u].args.code_page = 2 /\ TotalCodes(t) <= 2 * n)
                 => CodesListed(t) \cup CodesListed(u) = MatchingCodes(th[t].args)
           /\ (Listing(t) /\ th[t].args.code_page = 1 /\ TotalCodes(t) <= n)
                 => CodesListed(t) = MatchingCodes(th[t].args)

\* C23, binding listing: the same for the device rows.
C23_DevicePages ==
    \A t \in Threads, u \in Threads :
        LET n == th[t].args.device_per_page
        IN /\ (SameListing(t, u) /\ th[t].args.device_page # th[u].args.device_page)
                 => DevicesListed(t) \cap DevicesListed(u) = {}
           /\ (SameListing(t, u) /\ th[t].args.device_page = 1
                 /\ th[u].args.device_page = 2 /\ TotalDevices(t) <= 2 * n)
                 => DevicesListed(t) \cup DevicesListed(u) = MatchingDevices(th[t].args)
           /\ (Listing(t) /\ th[t].args.device_page = 1 /\ TotalDevices(t) <= n)
                 => DevicesListed(t) = MatchingDevices(th[t].args)

\* C23: on an unchanging store the pages of the code listing and of the
\* binding listing hold at most per_page rows, report the number of matching
\* rows as total, and together return every matching row exactly once, also
\* when bindings share their activated_at.
C23_Pages == C23_Totals /\ C23_CodePages /\ C23_DevicePages

\* The unused codes that match a search term.
UnusedMatching(search) ==
    {c \in DOMAIN codes : codes[c].used_by = NULL /\ (search = "" \/ c = search)}

\* The number of rows page p of size n holds when total rows match.
RowsOnPage(total, p, n) ==
    IF total <= (p - 1) * n THEN 0
    ELSE IF total - (p - 1) * n >= n THEN n
    ELSE total - (p - 1) * n

\* The step that runs the code SELECT of a show_unused listing returns only
\* codes that are unused in the store at that moment, and leaves out no unused
\* code that matches the search term.
C24_Step ==
    \A t \in Threads :
        (/\ th[t].pc = "ls_codes"
         /\ th'[t].pc = "ls_dev_count"
         /\ th[t].args.show_unused)
        => LET items == th'[t].resp.items[2]
               listed == {items[i].code : i \in DOMAIN items}
               unused == UnusedMatching(th[t].args.code_search)
           IN /\ \A c \in listed : codes[c].used_by = NULL
              /\ listed \subseteq unused
              /\ th[t].resp.items[1] = Cardinality(unused)
              /\ Cardinality(listed) = RowsOnPage(Cardinality(unused),
                                                  th[t].args.code_page,
                                                  th[t].args.code_per_page)
              /\ (th[t].args.code_page = 1
                    /\ Cardinality(unused) <= th[t].args.code_per_page)
                    => listed = unused

\* An activation that presented a code of a show_unused listing and returned.
Redeemed(t, u) ==
    /\ Listing(u)
    /\ th[u].args.show_unused
    /\ th[t].op = "activate"
    /\ th[t].pc = "done"
    /\ th[t].code_str \in CodesListed(u)

\* C24 (as stated): every listed code is accepted by activate from a device
\* without a binding.
C24_Inv_Accepted ==
    \A t \in Threads, u \in Threads :
        Redeemed(t, u) => th[t].resp.status = 200

C24_Inv ==
    \A t \in Threads, u \in Threads :
        Redeemed(t, u)
        => IF codes[th[t].code_str].type \in DOMAIN CARD_DURATIONS
           THEN /\ th[t].resp.status = 200
                /\ codes[th[t].code_str].used_by = th[t].machine_id
           ELSE /\ th[t].resp.status = 500
                /\ th[t].resp.kind = "unknown_plan"

RaceOver ==
    \A t \in Threads :
        th[t].op = "activate" /\ th[t].pc = "done" /\ th[t].machine_id = RaceDevice

\* A committed used_by always has its binding: no UPDATE of a request that
\* failed is committed.
C25_Inv_NoStrayUpdate ==
    \A c \in DOMAIN codes :
        codes[c].used_by # NULL
        => \E row \in devices : /\ row.machine_id = codes[c].used_by
                                 /\ row.activation_code = c

\* When both requests have returned, one succeeded and the other one got an
\* error; the device has one binding, on the winner's code, and the loser's
\* code is unused.
C25_Inv_OneWinner ==
    RaceOver
    => \E w \in Threads :
         /\ th[w].resp.status = 200
         /\ Cardinality(Bindings(RaceDevice)) = 1
         /\ \A row \in Bindings(RaceDevice) : row.activation_code = th[w].code_str
         /\ codes[th[w].code_str].used_by = RaceDevice
         /\ \A l \in Threads \ {w} :
               /\ th[l].resp.status \in {409, 500}
               /\ th[l].resp.kind \in {"already_bound", "storage_error"}
               /\ codes[th[l].code_str].used_by = NULL

\* The loser's code is redeemable: the other device, presenting a code the
\* winner did not take, is activated.
C25_Inv_Redeemable ==
    \A t \in Threads, w \in Threads :
        (/\ th[t].op = "activate" /\ th[t].pc = "done"
         /\ th[t].machine_id = OtherDevice
         /\ th[w].machine_id = RaceDevice /\ Succeeded(w))
        => IF th[t].code_str = th[w].code_str
           THEN th[t].resp.status = 403
           ELSE /\ th[t].resp.status = 200
                /\ codes[th[t].code_str].used_by = OtherDevice

C25_Witness_Redeemed ==
    \E t \in Threads, w \in Threads :
        /\ th[w].machine_id = RaceDevice /\ Succeeded(w)
        /\ th[t].machine_id = OtherDevice /\ Succeeded(t)
        /\ th[t].code_str # th[w].code_str

\* Both concurrent revocations have returned, neither on a storage error.
RevokesOver ==
    \A t \in Threads :
        th[t].op = "revoke" /\ th[t].pc = "done" /\ th[t].logged = ""

\* Of two concurrent revocations of one bound device exactly one returns Ok
\* and the other one NotFound.
C26_Inv_OneOk ==
    RevokesOver
    => \E w \in Threads :
         /\ th[w].resp.status = 200
         /\ \A l \in Threads \ {w} : th[l].resp.status = 404

\* The commit of a revocation deletes no binding but the one it read, and
\* clears no code that another device has redeemed.
C26_Step ==
    \A t \in Threads :
        (th[t].pc = "rev_upd" /\ th'[t].pc = "done" /\ th'[t].logged = "")
        => /\ \A row \in devices \ devices' :
                 /\ row.machine_id = th[t].machine_id
                 /\ row.activation_code = th[t].code_to_reset
           /\ \A c \in DOMAIN codes :
                 (codes[c].used_by # NULL /\ codes'[c].used_by = NULL)
                 => codes[c].used_by = th[t].machine_id

\* C26: of two concurrent revocations of one bound device, possibly
\* interleaved with activations, exactly one returns Ok and the other one
\* NotFound, and the later one neither deletes a binding nor clears a code
\* that was created or redeemed after the first one committed.
C26_Revokes == []C26_Inv_OneOk /\ [][C26_Step]_vars

\* The second half of C26 alone.
C26_LaterTouchesNothingNew == [][C26_Step]_vars

\* C27: when the store fails in activate after the UPDATE of used_by and
\* before the commit (the INSERT fails, the disk fails), the request answers
\* with a server error and nothing of it is committed: the step that opens
\* the transaction and the step that fails both leave the committed tables as
\* they are, and the transaction's private writes are discarded.
C27_Step ==
    \A t \in Threads :
        /\ (th[t].op = "activate" /\ th[t].pc = "upd" /\ th'[t].pc = "ins")
              => /\ codes' = codes
                 /\ devices' = devices
                 /\ wcodes'[th[t].code_str].used_by = th[t].machine_id
        /\ (th[t].op = "activate" /\ th[t].pc = "upd" /\ th'[t].pc = "done")
              => /\ th'[t].logged = Locked
                 /\ th'[t].resp.status = 500
                 /\ codes' = codes
                 /\ devices' = devices
                 /\ UNCHANGED <<lock, wcodes, wdevices>>
        /\ (th[t].op = "activate" /\ th[t].pc = "ins" /\ th'[t].pc = "done"
              /\ th'[t].logged # "")
              => /\ th'[t].resp.status = 500
                 /\ codes' = codes
                 /\ devices' = devices
                 /\ wcodes' = codes
                 /\ wdevices' = devices
                 /\ lock' = NoThread

C27_AllOrNothing == [][C27_Step]_vars

C27_Witness ==
    \E t \in Threads :
        /\ th[t].op = "activate"
        /\ th[t].pc = "done"
        /\ th[t].logged \in DiskErrors
        /\ th[t].resp.status = 500
        /\ codes[th[t].code_str].used_by = NULL
        /\ Bindings(th[t].machine_id) = {}

\* C28: activate checks the code first, the device second and the plan third:
\* a bound device presenting an absent or used code is answered InvalidCode,
\* and a bound device presenting an unused code of an unconfigured plan is
\* answered AlreadyBound.
C28_Step ==
    \A t \in Threads :
        /\ (/\ th[t].pc = "idle"
            /\ th'[t].op = "activate"
            /\ th'[t].machine_id # ""
            /\ th'[t].code_str \notin {NONE, ""}
            /\ Bindings(th'[t].machine_id) # {}
            /\ \/ th'[t].code_str \notin DOMAIN codes
               \/ codes[th'[t].code_str].used_by # NULL)
              => /\ th'[t].pc = "done"
                 /\ th'[t].resp.status = 403
                 /\ th'[t].resp.kind = "invalid_code"
        /\ (/\ th[t].pc = "sel_device"
            /\ th'[t].pc # "sel_device"
            /\ Bindings(th[t].machine_id) # {})
              => /\ th'[t].pc = "done"
                 /\ th'[t].resp.status = 409
                 /\ th'[t].resp.kind = "already_bound"

C28_CheckOrder == [][C28_Step]_vars

C28_Witness ==
    \E t \in Threads :
        /\ th[t].op = "activate"
        /\ th[t].pc = "done"
        /\ th[t].resp.kind = "already_bound"
        /\ Bindings(th[t].machine_id) # {}
        /\ th[t].code_str \in DOMAIN codes
        /\ codes[th[t].code_str].used_by = NULL
        /\ codes[th[t].code_str].type \notin DOMAIN CARD_DURATIONS

\* A bound device was answered InvalidCode for a code that another device
\* has redeemed.
C28_Witness_InvalidCode ==
    \E t \in Threads :
        /\ th[t].op = "activate"
        /\ th[t].pc = "done"
        /\ th[t].resp.kind = "invalid_code"
        /\ Bindings(th[t].machine_id) # {}
        /\ th[t].code_str \in DOMAIN codes
        /\ codes[th[t].code_str].used_by \notin {NULL, th[t].machine_id}

\* Thread u holds the answer Expired of a status check for device d.
ToldExpired(u, d) ==
    /\ th[u].op = "check_status"
    /\ th[u].pc = "done"
    /\ th[u].machine_id = d
    /\ th[u].resp.kind = "expired"

\* The binding that answer reported is still in place.
StillBound(u, d) ==
    \E row \in devices : /\ row.machine_id = d
                          /\ row.expires_at = th[u].resp.expires_at

\* C29: once a status check of d has answered Expired, every later status
\* check of d answers Expired, every guard check of d fails and every
\* activation of d with an unused code is answered AlreadyBound, as long as
\* the binding is in place; only a revocation removes a binding, and d is
\* activated again only after its binding has been removed.
C29_Step ==
    /\ devices \ devices' # {}
         => \E t \in Threads :
              th[t].op = "revoke" /\ th[t].pc = "rev_upd" /\ th'[t].pc = "done"
    /\ \A u \in Threads : \A t \in Threads \ {u} :
         (ToldExpired(u, RaceDevice) /\ StillBound(u, RaceDevice))
         => /\ (th[t].pc = "idle" /\ th'[t].op = "check_status")
                  => th'[t].resp.kind = "expired"
            /\ (th[t].pc = "idle" /\ th'[t].op \in ContentOps)
                  => /\ th'[t].pc = "done"
                     /\ th'[t].resp.status = 403
                     /\ th'[t].resp.kind = "expired"
            /\ (th[t].pc = "sel_device" /\ th'[t].pc # "sel_device")
                  => /\ th'[t].pc = "done"
                     /\ th'[t].resp.status = 409
                     /\ th'[t].resp.kind = "already_bound"
    /\ \A u \in Threads : \A t \in Threads \ {u} :
         (/\ ToldExpired(u, RaceDevice)
          /\ th[t].op = "activate"
          /\ th[t].pc # "done"
          /\ th'[t].pc = "done"
          /\ th'[t].resp.status = 200)
         => ~StillBound(u, RaceDevice)

C29_ExpiryAbsorbing == [][C29_Step]_vars

C29_Witness ==
    \E u \in Threads, t \in Threads :
        /\ ToldExpired(u, RaceDevice)
        /\ StillBound(u, RaceDevice)
        /\ th[t].op = "activate"
        /\ th[t].pc = "done"
        /\ th[t].resp.kind = "already_bound"
        /\ codes[th[t].code_str].used_by = NULL

\* The device was activated again after its revocation.
C29_Witness_Again ==
    \E u \in Threads, t \in Threads :
        /\ ToldExpired(u, RaceDevice)
        /\ th[t].op = "activate"
        /\ th[t].machine_id = RaceDevice
        /\ Succeeded(t)

\* The guard's verdict and the status answer say the same.
Agree(verdict, kind) ==
    /\ verdict = "ok" <=> kind = "activated"
    /\ verdict = "unauthorized" <=> kind = "unactivated"
    /\ verdict = "expired" <=> kind = "expired"

\* On every store, for every device and instant, the guard's decision and the
\* status answer computed from the same store and instant agree.
C30_Inv ==
    \A d \in DeviceIds, now \in 0..(MaxClock + 1) :
        Agree(GuardVerdict(devices, d, now),
              StatusOf(devices, d, now, Idle).resp.kind)

\* What a guarded request and a status check answer agrees with what the
\* other one computes on the state in which they ran.
C30_Step ==
    \A t \in Threads :
        /\ (th[t].pc = "idle" /\ th'[t].op \in ContentOps /\ th'[t].machine_id # "")
              => LET verdict == IF th'[t].pc = "body" THEN "ok" ELSE th'[t].resp.kind
                 IN /\ th'[t].pc = "body" \/ th'[t].resp.status = 403
                    /\ Agree(verdict,
                             StatusOf(devices, th'[t].machine_id, clock, Idle).resp.kind)
        /\ (th[t].pc = "idle" /\ th'[t].op = "check_status" /\ th'[t].machine_id # "")
              => Agree(GuardVerdict(devices, th'[t].machine_id, clock),
                       th'[t].resp.kind)

\* C30: the guard admits a device exactly when check_status, on the same
\* store and at the same time, answers Activated; it answers Unauthorized
\* exactly when check_status answers Unactivated, and Expired exactly when
\* check_status answers Expired.
C30_GuardAgrees == []C30_Inv /\ [][C30_Step]_vars

C30_Witness ==
    \E t \in Threads, u \in Threads :
        /\ th[t].op \in ContentOps
        /\ th[t].pc = "done"
        /\ th[t].resp.kind = "expired"
        /\ th[u].op = "check_status"
        /\ th[u].pc = "done"
        /\ th[u].resp.kind = "expired"
        /\ th[u].machine_id = th[t].machine_id
        /\ \E row \in Bindings(th[t].machine_id) : ParseStored(row.expires_at) = clock

\* C31: a binding is immutable while it exists.  On every step each binding
\* of the committed store is either still there with the same activation_code,
\* card_type, activated_at and expires_at, or its device has no binding any
\* more; and a binding goes away only on the commit of a revocation of its
\* own device.
C31_Step ==
    /\ \A row \in devices :
          \/ RowsOf(devices', row.machine_id) = {row}
          \/ RowsOf(devices', row.machine_id) = {}
    /\ \A row \in devices \ devices' :
          \E t \in Threads :
              /\ th[t].op = "revoke"
              /\ th[t].pc = "rev_upd"
              /\ th[t].machine_id = row.machine_id
              /\ th'[t].pc = "done"
              /\ th'[t].resp.status = 200

C31_BindingImmutable == [][C31_Step]_vars

\* A binding made at instant 0 is in place, unchanged, after another device
\* has activated at a later instant.
C31_Witness ==
    \E row \in devices, t \in Threads :
        /\ Inst(row.activated_at) = 0
        /\ Inst(row.expires_at) = CARD_DURATIONS[row.card_type]
        /\ Succeeded(t)
        /\ th[t].op = "activate"
        /\ th[t].machine_id # row.machine_id
        /\ \E other \in Bindings(th[t].machine_id) : Inst(other.activated_at) > 0

\* C32: a request without a device identifier is answered 400 as soon as it
\* is read, and such requests leave no binding under any key and no code
\* redeemed.
C32_Inv ==
    /\ devices = {}
    /\ \A c \in DOMAIN codes : codes[c].used_by = NULL

C32_Step ==
    \A t \in Threads :
        (th[t].pc = "idle" /\ th'[t].pc # "idle")
        => /\ th'[t].pc = "done"
           /\ th'[t].resp.status = 400
           /\ th'[t].resp.kind = "invalid_request"

C32_MissingRejected == []C32_Inv /\ [][C32_Step]_vars

\* C33: activate answers UnknownPlan only for a code whose plan type is not
\* in the configured table: once the code is found unused and the device
\* unbound, a plan type of the table (whatever its days, 0 included) lets the
\* request go on to its writes, and the request then succeeds.
C33_Step ==
    \A t \in Threads :
        /\ (th[t].pc = "sel_device" /\ th'[t] # th[t])
           => /\ th'[t].resp.kind = "unknown_plan"
                    => th[t].card_type \notin DOMAIN durations
              /\ (th[t].card_type \in DOMAIN durations
                     /\ Bindings(th[t].machine_id) = {})
                    => th'[t].pc = "upd"
        /\ (th[t].pc \in {"upd", "ins"} /\ th'[t].pc = "done")
           => th'[t].resp.status = 200

C33_OnlyAbsentPlans == [][C33_Step]_vars

\* C34: the answer of activate does not tell an absent code from a redeemed
\* one.  Whenever two answered activations of one device are in hand, one for
\* a code that is not in the store and one rejected for a code that is
\* redeemed, the two responses are equal in every field; and the step that
\* rejects a code, absent or redeemed, changes neither table.
Rejected(t) ==
    /\ th[t].op = "activate"
    /\ th[t].pc = "done"
    /\ th[t].machine_id # ""
    /\ th[t].code_str \notin {NONE, ""}

C34_Inv ==
    \A t \in Threads : \A u \in Threads \ {t} :
        (/\ Rejected(t)
         /\ Rejected(u)
         /\ th[t].machine_id = th[u].machine_id
         /\ th[t].code_str \notin DOMAIN codes
         /\ th[u].code_str \in DOMAIN codes
         /\ codes[th[u].code_str].used_by # NULL
         /\ th[u].resp.status \notin {200, 409, 500})
        => th[t].resp = th[u].resp

C34_Step ==
    \A t \in Threads :
        (/\ th[t].pc = "idle"
         /\ th'[t].op = "activate"
         /\ th'[t].machine_id # ""
         /\ th'[t].code_str \notin {NONE, ""}
         /\ CodeRejected(codes, th'[t].code_str))
        => /\ th'[t].pc = "done"
           /\ codes' = codes
           /\ devices' = devices

C34_NoCodeOracle == []C34_Inv /\ [][C34_Step]_vars

\* One device holds both answers: a code that is not in the store and a code
\* another device redeemed were rejected.
C34_Witness ==
    \E t \in Threads : \E u \in Threads \ {t} :
        /\ Rejected(t)
        /\ Rejected(u)
        /\ th[t].machine_id = th[u].machine_id
        /\ th[t].code_str \notin DOMAIN codes
        /\ th[u].code_str \in DOMAIN codes
        /\ codes[th[u].code_str].used_by \notin {NULL, th[u].machine_id}
        /\ th[t].resp.status = 403
        /\ th[u].resp.status = 403

\* C35: a submission of the generation form reaches the INSERT only with a
\* quantity q, 1 <= q <= GENERATE_CODE_LIMIT, and a card type that is a key
\* of the duration table; codes appear only on the commit of such a
\* submission, exactly q of them, unused and of the submitted type, for which
\* the duration lookup of activate finds an entry; any other step of the
\* form handler leaves the codes as they are.
C35_Step ==
    \A t \in Threads :
        /\ (th[t].pc = "idle" /\ th'[t].op = "manage")
           => /\ codes' = codes
              /\ th'[t].pc \in {"done", "gen_commit"}
              /\ th'[t].pc = "gen_commit"
                    => /\ th'[t].quantity >= 1
                       /\ th'[t].quantity <= GENERATE_CODE_LIMIT
                       /\ th'[t].card_type \in DOMAIN durations
              /\ th'[t].pc = "done" => wcodes' = wcodes
        /\ (th[t].pc = "gen_commit" /\ th'[t].pc = "done")
           => /\ DOMAIN codes \subseteq DOMAIN codes'
              /\ Cardinality(DOMAIN codes' \ DOMAIN codes) = th[t].quantity
              /\ \A c \in DOMAIN codes' \ DOMAIN codes :
                    /\ codes'[c].used_by = NULL
                    /\ codes'[c].type = th[t].card_type
                    /\ codes'[c].type \in DOMAIN durations
                    /\ DurationGet(codes'[c].type) # {}

C35_GenerateValidated == [][C35_Step]_vars

\* A batch was committed and another submission came back as the bare form.
C35_Witness ==
    \E t \in Threads : \E u \in Threads \ {t} :
        /\ th[t].op = "manage"
        /\ th[t].resp.kind = "generated"
        /\ th[u].op = "manage"
        /\ th[u].resp.kind = "form"
        /\ \E c \in DOMAIN codes : codes[c].type \in DOMAIN durations

\* C36 as stated: two pinyin queries that differ only in letter case list the
\* same entries, and a pinyin query lists exactly the entries whose stored
\* pinyin equals the query after case folding.
PinyinAnswered(t) ==
    /\ th[t].op = "advanced_search"
    /\ th[t].search_type = "pinyin"
    /\ th[t].pc = "done"
    /\ th[t].resp.status = 200

StoredAs(query) ==
    {dictionary[i].glyph : i \in {j \in 1..Len(dictionary) :
                                     Lower(dictionary[j].pinyin) = Lower(query)}}

C36_Inv_CaseBlind ==
    \A t \in Threads : \A u \in Threads \ {t} :
        (PinyinAnswered(t) /\ PinyinAnswered(u)
         /\ Lower(th[t].query) = Lower(th[u].query))
        => Listed(t) = Listed(u)

C36_Inv_Exact ==
    \A t \in Threads : PinyinAnswered(t) => Listed(t) = StoredAs(th[t].query)

C36_CaseFolded == C36_Inv_CaseBlind /\ C36_Inv_Exact

\* C36 as the code has it: two pinyin queries that differ only in letter case
\* list the same entries; a non-empty query lists exactly the entries whose
\* stored pinyin equals it after case folding; the empty query lists nothing,
\* because entries with an empty pinyin are not indexed.
C36_Inv_ExactNonEmpty ==
    \A t \in Threads :
        PinyinAnswered(t)
        => IF th[t].query = "" THEN Listed(t) = {}
           ELSE Listed(t) = StoredAs(th[t].query)

C36_CaseFoldedNonEmpty == C36_Inv_CaseBlind /\ C36_Inv_ExactNonEmpty

\* Two answered queries that differ in case list the same, non-empty set, and
\* a listed entry is stored in a third spelling.
C36_Witness ==
    \E t \in Threads : \E u \in Threads \ {t} :
        /\ PinyinAnswered(t)
        /\ PinyinAnswered(u)
        /\ th[t].query = "MA"
        /\ th[u].query = "ma"
        /\ Listed(t) = Listed(u)
        /\ \E i \in 1..Len(dictionary) :
              /\ dictionary[i].glyph \in Listed(t)
              /\ dictionary[i].pinyin = "Ma"

\* The empty query was answered with no entry although an entry with an
\* empty pinyin is stored.
C36_Witness_Empty ==
    \E t \in Threads :
        /\ PinyinAnswered(t)
        /\ th[t].query = ""
        /\ Listed(t) = {}
        /\ \E i \in 1..Len(dictionary) : dictionary[i].pinyin = ""

\* C37: under fair scheduling every activate and revoke request ends with
\* exactly one response and no statement of it is run again.  A handler only
\* moves forward through its statements; it holds a response exactly when it
\* has returned, and a response, once there, is not replaced; and a handler
\* that has started always returns.
Position(pc) ==
    IF pc = "idle" THEN 0
    ELSE IF pc = "sel_device" THEN 1
    ELSE IF pc \in {"upd", "rev_del"} THEN 2
    ELSE IF pc \in {"ins", "rev_upd"} THEN 3
    ELSE 4

C37_Inv ==
    \A t \in Threads :
        /\ th[t].pc = "done" <=> th[t].resp.status # 0
        /\ th[t].pc = "done" => th[t].resp.status \in {200, 400, 401, 403, 404, 409, 500}
        /\ lock = t => th[t].pc \in {"ins", "rev_upd"}

C37_Step ==
    \A t \in Threads :
        \/ th'[t] = th[t]
        \/ th[t].pc = "done" /\ th'[t] = Idle
        \/ /\ th[t].pc # "done"
           /\ Position(th'[t].pc) > Position(th[t].pc)
           /\ th'[t].pc # "idle" /\ th[t].pc # "idle" => th'[t].op = th[t].op

C37_Terminates ==
    /\ []C37_Inv
    /\ [][C37_Step]_vars
    /\ \A t \in Threads : (th[t].pc \notin {"idle", "done"}) ~> (th[t].pc = "done")

\* A revocation succeeded and an activation that met the held write lock was
\* answered with a storage error.
C37_Witness ==
    \E t \in Threads : \E u \in Threads \ {t} :
        /\ th[t].op = "activate"
        /\ th[t].pc = "done"
        /\ th[t].logged = Locked
        /\ th[t].resp.status = 500
        /\ th[u].op = "revoke"
        /\ Succeeded(u)

\* C38: the session flag turns true only on a step taken with a stored hash
\* of exactly two hexadecimal fields whose key is the one derived from a
\* password the form can carry and the stored salt; with an empty or
\* malformed stored hash the flag is never true; and a logout step leaves the
\* flag false.
WellFormed(stored_hash) ==
    /\ Len(stored_hash) = 2
    /\ stored_hash[1] # NotHexSalt
    /\ stored_hash[2] # NotHexKey

C38_Inv ==
    ~WellFormed(admin_hash) => ~logged_in

C38_Step ==
    /\ (~logged_in /\ logged_in')
       => /\ WellFormed(admin_hash)
          /\ \E password \in Passwords :
                admin_hash[2] = Pbkdf2(password, admin_hash[1])
          /\ \E password \in Passwords : login(password)
    /\ logout => ~logged_in'
    /\ (logged_in /\ ~logged_in') => logout

C38_SessionFlag == []C38_Inv /\ [][C38_Step]_vars

\* The admin logged in against the well-formed hash and generated codes.
C38_Witness ==
    /\ logged_in
    /\ admin_hash = ADMIN_PASSWORD_HASH
    /\ \E t \in Threads : th[t].op = "manage" /\ th[t].resp.kind = "generated"

\* With the empty hash of the default configuration the admin pages stay
\* closed.
C38_Witness_Empty ==
    /\ admin_hash = << "" >>
    /\ \E t \in Threads : th[t].op = "manage" /\ th[t].resp.kind = "login_redirect"

\* ------------------------------------------------------------ C39
\* The store holds everything the legacy files held: the dictionary, and every
\* legacy code (no request removes a code or a dictionary row).
Migrated ==
    /\ database = OldDictionaryFile
    /\ DOMAIN MigrateCodes(OldCodesFile, EmptyTable) \subseteq DOMAIN codes

C39_Inv ==
    th[Main].pc \notin MigratePositions => database = NoFile \/ Migrated

C39_Step ==
    /\ (th[Main].pc = "stopped" /\ database # NoFile /\ th'[Main].pc # "stopped")
        => UNCHANGED <<codes, devices, wcodes, wdevices, database>>
    /\ (th[Main].pc \in MigratePositions /\ th'[Main].pc = "build_indexes")
        => /\ codes' = MigrateCodes(OldCodesFile, EmptyTable)
           /\ devices' = MigrateDevices(OldDevicesFile, {})
           /\ database' = OldDictionaryFile
    /\ (th[Main].pc \in MigratePositions /\ th'[Main].pc = "stopped")
        => database' = NoFile /\ codes' = EmptyTable /\ devices' = {}
    /\ th'[Main].pc = "serving" => Migrated'

\* C39: the start-up migration is one-shot and all-or-nothing.  A start that
\* finds the database file changes nothing; a start that does not find it
\* either commits the schema with every legacy code, device and dictionary row,
\* or ends with the file removed; so whenever the process is not in the middle
\* of the migration the file is absent or completely migrated, and the process
\* serves only on a completely migrated store.
C39_OneShotAllOrNothing == []C39_Inv /\ [][C39_Step]_vars

\* The process serves on a store that has the tables and none of the legacy
\* rows, after a start that was interrupted and a start that found the file.
C39_ServesPartialStore ==
    /\ th[Main].pc = "serving"
    /\ database = <<>>
    /\ codes = EmptyTable
    /\ \E t \in Threads :
        /\ th[t].pc = "done"
        /\ th[t].op = "activate"
        /\ th[t].code_str = "K2"
        /\ th[t].resp.status = 403

====
